---- MODULE Spec2Model ----
(***************************************************************************)
(* Water Sort puzzle: vials, game states, moves, and the reverse-shuffle   *)
(* level generator.  Colors are the palette indices 1..12; vial indices    *)
(* are 0-based as in the source, sequences are 1-based.                    *)
(***************************************************************************)
EXTENDS Integers, Sequences, FiniteSets, TLC

VARIABLES
    heap,          \* Vial objects: id -> [segments, capacity]
    cur,           \* the GameState object the next call is made on
    recv,          \* the receiver of the last applyMove call
    before,        \* contents of the receiver when the last call was made
    lastMove,      \* the Move passed to the last call
    outcome,       \* "init" | "returned" | "threw"
    gpc,           \* generateLevel: "idle" | "shuffle" | "post" | "break" | "done"
    gargs,         \* generateLevel options
    gstate,        \* generateLevel: currentState / newState
    visitedStates, \* generateShuffledLevel: Set<string>
    shuffleMoves,  \* generateShuffledLevel: Move[]
    gout,          \* serialized level of the finished call
    calls,         \* number of generateLevel calls started
    firstOut,      \* serialized level of the first call
    hpc,           \* getStateHash comparison: "idle" | "start" | "done"
    stateA,        \* first GameState of the comparison
    stateB,        \* second GameState of the comparison
    hashes,        \* [a, again, b]: getStateHash of stateA (twice) and of stateB
    spc,           \* solvePuzzle: "idle" | "start" | "loop" | "done"
    solverInitialState, \* solvePuzzle: initialState
    maxSteps,      \* solvePuzzle: maxSteps
    queue,         \* solvePuzzle: queue of [state, path, lastMove, hasLastMove]
    seen,          \* solvePuzzle: visited, the Set<string> of state hashes
    statesExplored,\* solvePuzzle: statesExplored
    result,        \* solvePuzzle: [solved, path, pathIsNull, timedOut]
    exit,          \* which return of solvePuzzle was taken
    script,        \* what the caller does with its SeededRandom instances
    seeds,         \* the constructor argument of each instance
    rngs,          \* the SeededRandom instances: [seed]
    callArgs,      \* [min, max, array]: arguments of nextInt / shuffleArray
    outs,          \* the values returned to the caller by each instance, in order
    upc,           \* a call of a puzzle-utils function: "idle" | "start" | "done"
    ucall,         \* the function called and its arguments
    objs,          \* the objects of the caller: id -> Vial, GameState or array
    uret,          \* what the call returned
    rpc,           \* generateBestLevel: "idle" | "start" | "loop" | "solving" | "done"
    rargs,         \* generateBestLevel: baseSeed, colorCount, vialHeight, maxEmptyVials, attempts
    attempt,       \* generateBestLevel: i
    randomizedState,     \* generateRandomLevelCandidate: randomizedState
    currentEmptyVials,   \* generateRandomLevelCandidate: currentEmptyVials
    stateWithEmptyVials, \* generateRandomLevelCandidate: stateWithEmptyVials
    candidates,    \* generateBestLevel: candidates
    tried,         \* every result of generateRandomLevelCandidate, in order
    rout,          \* what generateBestLevel returned
    rcalls,        \* number of generateBestLevel calls started
    rfirst,        \* what the first call returned
    solverRuns,    \* generateRandomLevelCandidate: the calls of solvePuzzle made so far
    bpc,           \* generateSolvablePuzzle: "idle" | "outer" | "inner" | "done"
    bvials,        \* generateSolvablePuzzle: vials
    bsteps,        \* generateSolvablePuzzle: steps.length
    battempts,     \* generateSolvablePuzzle: attempts
    blastMove,     \* generateSolvablePuzzle: lastMove, <<>> for null
    puzzleData     \* generateSolvablePuzzle: puzzleData, <<>> while unassigned

playVars == <<heap, cur, recv, before, lastMove, outcome>>
genVars == <<gpc, gargs, gstate, visitedStates, shuffleMoves, gout, calls, firstOut>>
hashVars == <<hpc, stateA, stateB, hashes>>
solverVars == <<spc, solverInitialState, maxSteps, queue, seen, statesExplored, result, exit>>
rngVars == <<script, seeds, rngs, callArgs, outs>>
utilVars == <<upc, ucall, objs, uret>>
randVars == <<rpc, rargs, attempt, randomizedState, currentEmptyVials, stateWithEmptyVials,
              candidates, tried, rout, rcalls, rfirst, solverRuns>>
batchVars == <<bpc, bvials, bsteps, battempts, blastMove, puzzleData>>
libVars == <<hashVars, solverVars, rngVars, utilVars, randVars, batchVars>>
vars == <<heap, cur, recv, before, lastMove, outcome,
          gpc, gargs, gstate, visitedStates, shuffleMoves, gout, calls, firstOut,
          hpc, stateA, stateB, hashes,
          spc, solverInitialState, maxSteps, queue, seen, statesExplored, result, exit,
          script, seeds, rngs, callArgs, outs,
          upc, ucall, objs, uret,
          rpc, rargs, attempt, randomizedState, currentEmptyVials, stateWithEmptyVials,
          candidates, tried, rout, rcalls, rfirst, solverRuns,
          bpc, bvials, bsteps, battempts, blastMove, puzzleData>>

HashIdle ==
    /\ hpc = "idle"
    /\ stateA = <<>>
    /\ stateB = <<>>
    /\ hashes = <<>>

SolverIdle ==
    /\ spc = "idle"
    /\ solverInitialState = <<>>
    /\ maxSteps = 0
    /\ queue = <<>>
    /\ seen = {}
    /\ statesExplored = 0
    /\ result = <<>>
    /\ exit = "none"

RngIdle ==
    /\ script = "idle"
    /\ seeds = <<>>
    /\ rngs = <<>>
    /\ callArgs = <<>>
    /\ outs = <<>>

UtilIdle ==
    /\ upc = "idle"
    /\ ucall = <<>>
    /\ objs = <<>>
    /\ uret = <<>>

RandIdle ==
    /\ rpc = "idle"
    /\ rargs = <<>>
    /\ attempt = 0
    /\ randomizedState = <<>>
    /\ currentEmptyVials = 0
    /\ stateWithEmptyVials = <<>>
    /\ candidates = <<>>
    /\ tried = <<>>
    /\ rout = <<>>
    /\ rcalls = 0
    /\ rfirst = <<>>
    /\ solverRuns = <<>>

BatchIdle ==
    /\ bpc = "idle"
    /\ bvials = <<>>
    /\ bsteps = 0
    /\ battempts = 0
    /\ blastMove = <<>>
    /\ puzzleData = <<>>

LibIdle == HashIdle /\ SolverIdle /\ RngIdle /\ UtilIdle /\ RandIdle /\ BatchIdle

-----------------------------------------------------------------------------
(* Bounds of the explored inputs *)

MaxVials == 3
MaxCapacity == 3
MaxColor == 2
MaxSegments == 3

(* getTopColor() of an empty vial: null *)
NoColor == 0

Min(a, b) == IF a < b THEN a ELSE b

-----------------------------------------------------------------------------
(* Vial *)

NewVial(capacity) == [segments |-> <<>>, capacity |-> capacity]

isEmpty(v) == Len(v.segments) = 0

isFull(v) == Len(v.segments) = v.capacity

(* isComplete without the test of isFull *)
Vial_isCompleteMonochrome(v) ==
    \A k \in 1..Len(v.segments) : v.segments[k] = v.segments[1]

Vial_isComplete(v) ==
    IF isEmpty(v) THEN TRUE
    ELSE IF ~isFull(v) THEN FALSE
    ELSE \A k \in 1..Len(v.segments) : v.segments[k] = v.segments[1]

getTopColor(v) == IF isEmpty(v) THEN NoColor ELSE v.segments[Len(v.segments)]

(* a canReceive that forgets to compare the top color *)
canReceiveAnyColor(v, color) == ~isFull(v)

canReceive(v, color) == ~isFull(v) /\ (isEmpty(v) \/ getTopColor(v) = color)

Vial_clone(v) == [segments |-> v.segments, capacity |-> v.capacity]

(* segments.pop(): a no-op on an empty array *)
Pop(segs) == IF Len(segs) = 0 THEN segs ELSE SubSeq(segs, 1, Len(segs) - 1)

(* a single pop whatever colorsToPour is *)
PopOnce(segs, n) == Pop(segs)

RECURSIVE PopN(_, _)
PopN(segs, n) == IF n <= 0 THEN segs ELSE PopN(Pop(segs), n - 1)

RECURSIVE PushN(_, _, _)
PushN(segs, color, n) == IF n <= 0 THEN segs ELSE PushN(Append(segs, color), color, n - 1)

RECURSIVE countTopFrom(_, _, _)
countTopFrom(segs, color, i) ==
    IF i < 1 THEN 0
    ELSE IF segs[i] = color THEN 1 + countTopFrom(segs, color, i - 1)
    ELSE 0

countTopSegmentsOfSameColor(v, color) == countTopFrom(v.segments, color, Len(v.segments))

-----------------------------------------------------------------------------
(* GameState.  A GameState value holds the vials themselves; a GameState   *)
(* object holds vial ids that point into the heap.                         *)

GameState(vials, colorCount, emptyVialCount) ==
    [vials |-> vials, colorCount |-> colorCount,
     emptyVialCount |-> emptyVialCount, totalVials |-> Len(vials)]

Deref(h, gs) == [gs EXCEPT !.vials = [k \in 1..Len(gs.vials) |-> h[gs.vials[k]]]]

isComplete(s) == \A k \in 1..Len(s.vials) : Vial_isComplete(s.vials[k])

(* a pour that ignores the room left in the target *)
maxPourNoRoom(sourceVial, targetVial, topColor) ==
    countTopSegmentsOfSameColor(sourceVial, topColor)

maxPourOf(sourceVial, targetVial, topColor) ==
    LET colorsToPour == countTopSegmentsOfSameColor(sourceVial, topColor)
    IN Min(colorsToPour, targetVial.capacity - Len(targetVial.segments))

RECURSIVE targetLoop(_, _, _, _)
targetLoop(s, i, j, moves) ==
    IF j >= s.totalVials THEN moves
    ELSE IF i = j THEN targetLoop(s, i, j + 1, moves)
    ELSE LET sourceVial == s.vials[i + 1]
             targetVial == s.vials[j + 1]
             topColor == getTopColor(sourceVial)
             maxPour == maxPourOf(sourceVial, targetVial, topColor)
         IN IF canReceive(targetVial, topColor) /\ maxPour > 0
            THEN targetLoop(s, i, j + 1,
                     Append(moves, [sourceVialIndex |-> i, targetVialIndex |-> j,
                                    colorsToPour |-> maxPour]))
            ELSE targetLoop(s, i, j + 1, moves)

RECURSIVE sourceLoop(_, _, _)
sourceLoop(s, i, moves) ==
    IF i >= s.totalVials THEN moves
    ELSE IF isEmpty(s.vials[i + 1]) THEN sourceLoop(s, i + 1, moves)
    ELSE sourceLoop(s, i + 1, targetLoop(s, i, 0, moves))

getAvailableMoves(s) == sourceLoop(s, 0, <<>>)

(* new Vial(...): the object gets the least id not in use *)
NextFree(h) == CHOOSE k \in 0..Cardinality(DOMAIN h) :
                   k \notin DOMAIN h /\ \A j \in 0..(k - 1) : j \in DOMAIN h

RECURSIVE cloneVials(_, _, _, _)
cloneVials(h, refs, k, acc) ==
    IF k > Len(refs) THEN [heap |-> h, refs |-> acc]
    ELSE LET id == NextFree(h)
         IN cloneVials(h @@ (id :> Vial_clone(h[refs[k]])), refs, k + 1, Append(acc, id))

(* a clone that shares the receiver's Vial objects *)
cloneShallow(h, gs) ==
    [heap |-> h, state |-> GameState(gs.vials, gs.colorCount, gs.emptyVialCount)]

clone(h, gs) ==
    LET c == cloneVials(h, gs.vials, 1, <<>>)
    IN [heap |-> c.heap, state |-> GameState(c.refs, gs.colorCount, gs.emptyVialCount)]

InRange(gs, idx) == idx >= 0 /\ idx < Len(gs.vials)

(* the pops and pushes of applyMove on the cloned state *)
pour(c, move) ==
    LET src == c.state.vials[move.sourceVialIndex + 1]
        tgt == c.state.vials[move.targetVialIndex + 1]
        colorToPour == getTopColor(c.heap[src])
        h1 == [c.heap EXCEPT ![src].segments = PopN(@, move.colorsToPour)]
        h2 == [h1 EXCEPT ![tgt].segments = PushN(@, colorToPour, move.colorsToPour)]
    IN IF colorToPour = NoColor
       THEN [heap |-> c.heap, state |-> c.state, threw |-> FALSE]
       ELSE [heap |-> h2, state |-> c.state, threw |-> FALSE]

(* src/lib/game-state.ts: assertDefined throws on a missing vial *)
applyMove(h, gs, move) ==
    LET c == clone(h, gs)
    IN IF ~InRange(gs, move.sourceVialIndex) \/ ~InRange(gs, move.targetVialIndex)
       THEN [heap |-> c.heap, state |-> c.state, threw |-> TRUE]
       ELSE pour(c, move)

(* the variant that returns the clone when a vial is missing *)
applyMoveVariant(h, gs, move) ==
    LET c == clone(h, gs)
    IN IF ~InRange(gs, move.sourceVialIndex) \/ ~InRange(gs, move.targetVialIndex)
       THEN [heap |-> c.heap, state |-> c.state, threw |-> FALSE]
       ELSE pour(c, move)

(* vial.segments.join(",") and the join("|") over vials, as a token        *)
(* sequence: a color is itself, "," is 0 and "|" is -1                     *)
RECURSIVE joinSegments(_, _)
joinSegments(segs, k) ==
    IF k > Len(segs) THEN <<>>
    ELSE IF k = 1 THEN <<segs[1]>> \o joinSegments(segs, 2)
    ELSE <<0, segs[k]>> \o joinSegments(segs, k + 1)

RECURSIVE joinVials(_, _)
joinVials(vials, k) ==
    IF k > Len(vials) THEN <<>>
    ELSE IF k = 1 THEN joinSegments(vials[1].segments, 1) \o joinVials(vials, 2)
    ELSE <<-1>> \o joinSegments(vials[k].segments, 1) \o joinVials(vials, k + 1)

getStateHash(s) == joinVials(s.vials, 1)

-----------------------------------------------------------------------------
(* Play: applyMove calls on a GameState object *)

Colors == 1..MaxColor

SegSeqs(cap) == UNION {[1..n -> Colors] : n \in 0..cap}

RECURSIVE TotalSegments(_, _)
TotalSegments(vials, k) ==
    IF k > Len(vials) THEN 0 ELSE Len(vials[k].segments) + TotalSegments(vials, k + 1)

CountEmpty(vials) == Cardinality({k \in 1..Len(vials) : isEmpty(vials[k])})

(* every sequence of n vials of capacity cap holding at most budget segments *)
RECURSIVE VialSeqs(_, _, _)
VialSeqs(n, cap, budget) ==
    IF n = 0 THEN {<<>>}
    ELSE UNION {
        {Append(vs, [segments |-> segs, capacity |-> cap]) :
             vs \in VialSeqs(n - 1, cap, budget - Len(segs))} :
        segs \in SegSeqs(Min(cap, budget))}

RECURSIVE Flatten(_, _)
Flatten(vials, k) ==
    IF k > Len(vials) THEN <<>> ELSE vials[k].segments \o Flatten(vials, k + 1)

(* Colors are opaque tokens that the program only compares for equality,   *)
(* so the initial states are taken up to a renaming of the colors: reading *)
(* the vials in order, bottom to top, the k-th new color is k.             *)
FirstUseOrder(flat) ==
    \A i \in 1..Len(flat) :
        flat[i] = 1 \/ \E j \in 1..(i - 1) : flat[j] >= flat[i] - 1

InitialVials ==
    UNION {{vs \in VialSeqs(p[1], p[2], MaxSegments) : FirstUseOrder(Flatten(vs, 1))} :
           p \in (1..MaxVials) \X (1..MaxCapacity)}

NoMove == [sourceVialIndex |-> 0, targetVialIndex |-> 0, colorsToPour |-> 0]

GenIdle ==
    /\ gpc = "idle"
    /\ gargs = <<>>
    /\ gstate = <<>>
    /\ visitedStates = {}
    /\ shuffleMoves = <<>>
    /\ gout = <<>>
    /\ calls = 0
    /\ firstOut = <<>>

Init ==
    /\ \E vs \in InitialVials :
          /\ heap = [id \in 0..(Len(vs) - 1) |-> vs[id + 1]]
          /\ cur = GameState([k \in 1..Len(vs) |-> k - 1], MaxColor, CountEmpty(vs))
          /\ before = GameState(vs, MaxColor, CountEmpty(vs))
    /\ recv = cur
    /\ lastMove = NoMove
    /\ outcome = "init"
    /\ GenIdle
    /\ LibIdle

Reachable(h, a, b) ==
    [id \in {a.vials[k] : k \in 1..Len(a.vials)} \cup {b.vials[k] : k \in 1..Len(b.vials)}
        |-> h[id]]

Call(r, move) ==
    /\ recv' = cur
    /\ before' = Deref(heap, cur)
    /\ lastMove' = move
    /\ outcome' = IF r.threw THEN "threw" ELSE "returned"
    /\ cur' = r.state
    /\ heap' = Reachable(r.heap, cur, r.state)

(* a caller that takes its move from getAvailableMoves() *)
ApplyAvailableMove ==
    /\ outcome # "threw"
    /\ LET moves == getAvailableMoves(Deref(heap, cur))
       IN \E k \in 1..Len(moves) : Call(applyMove(heap, cur, moves[k]), moves[k])
    /\ UNCHANGED <<genVars, libVars>>

Next == ApplyAvailableMove

Spec == Init /\ [][Next]_vars

(* a caller that passes any move at all, to either variant of applyMove *)
AnyMoves(n) ==
    [sourceVialIndex : -1..n, targetVialIndex : -1..n, colorsToPour : 0..MaxCapacity]

ApplyAnyMove ==
    /\ outcome = "init"
    /\ \E m \in AnyMoves(Len(cur.vials)) : Call(applyMove(heap, cur, m), m)
    /\ UNCHANGED <<genVars, libVars>>

ApplyAnyMoveVariant ==
    /\ outcome = "init"
    /\ \E m \in AnyMoves(Len(cur.vials)) : Call(applyMoveVariant(heap, cur, m), m)
    /\ UNCHANGED <<genVars, libVars>>

NextAnyMove == ApplyAnyMove \/ ApplyAnyMoveVariant

SpecAnyMove == Init /\ [][NextAnyMove]_vars

-----------------------------------------------------------------------------
(* Reverse-shuffle level generator *)

GenMaxColors == 3
GenMaxHeight == 4
GenMaxEmpty == 2
GenMaxShuffle == 2

(* colorPalette.length *)
PaletteSize == 12

initializeGenerator(colorCount, vialHeight, emptyVials) ==
    GameState([k \in 1..colorCount |->
                  [segments |-> [j \in 1..vialHeight |-> k], capacity |-> vialHeight]]
              \o [k \in 1..emptyVials |-> NewVial(vialHeight)],
              colorCount, emptyVials)

RECURSIVE reverseTargetLoop(_, _, _, _)
reverseTargetLoop(state, i, j, moves) ==
    IF j >= state.totalVials THEN moves
    ELSE IF i = j THEN reverseTargetLoop(state, i, j + 1, moves)
    ELSE LET sourceVial == state.vials[i + 1]
             targetVial == state.vials[j + 1]
             topColor == getTopColor(sourceVial)
             colorsToPour == countTopSegmentsOfSameColor(sourceVial, topColor)
             maxPour == Min(colorsToPour, targetVial.capacity - Len(targetVial.segments))
         IN IF /\ ~isFull(targetVial)
               /\ (isEmpty(targetVial) \/ getTopColor(targetVial) = topColor)
               /\ maxPour > 0
            THEN reverseTargetLoop(state, i, j + 1,
                     Append(moves, [sourceVialIndex |-> i, targetVialIndex |-> j,
                                    colorsToPour |-> maxPour]))
            ELSE reverseTargetLoop(state, i, j + 1, moves)

RECURSIVE reverseSourceLoop(_, _, _)
reverseSourceLoop(state, i, moves) ==
    IF i >= state.totalVials THEN moves
    ELSE IF isEmpty(state.vials[i + 1]) THEN reverseSourceLoop(state, i + 1, moves)
    ELSE reverseSourceLoop(state, i + 1, reverseTargetLoop(state, i, 0, moves))

getValidReverseMoves(state) == reverseSourceLoop(state, 0, <<>>)

(* applyReverseMove that pours one segment whatever move.colorsToPour is *)
applyReverseMoveOne(state, move) ==
    LET colorToPour == getTopColor(state.vials[move.sourceVialIndex + 1])
        popped == [state.vials EXCEPT ![move.sourceVialIndex + 1].segments = PopN(@, 1)]
    IN [state EXCEPT !.vials =
           [popped EXCEPT ![move.targetVialIndex + 1].segments = PushN(@, colorToPour, 1)]]

applyReverseMove(state, move) ==
    LET colorToPour == getTopColor(state.vials[move.sourceVialIndex + 1])
        popped == [state.vials EXCEPT ![move.sourceVialIndex + 1].segments =
                                          PopN(@, move.colorsToPour)]
    IN [state EXCEPT !.vials =
           [popped EXCEPT ![move.targetVialIndex + 1].segments =
                              PushN(@, colorToPour, move.colorsToPour)]]

(* filterToUniqueResultStates that keeps every move *)
filterToUniqueResultStatesAll(moves, currentState, visited) == moves

filterToUniqueResultStates(moves, currentState, visited) ==
    SelectSeq(moves, LAMBDA move :
        getStateHash(applyReverseMove(currentState, move)) \notin visited)

ColorsIn(v) == {v.segments[k] : k \in 1..Len(v.segments)}

ColorsOf(state) == UNION {ColorsIn(state.vials[k]) : k \in 1..Len(state.vials)}

VialsWith(state, color) == {k \in 1..Len(state.vials) : color \in ColorsIn(state.vials[k])}

(* the sum of the values of a function with a finite domain *)
RECURSIVE Sum(_)
Sum(f) ==
    IF DOMAIN f = {} THEN 0
    ELSE LET x == CHOOSE y \in DOMAIN f : TRUE
         IN f[x] + Sum([y \in DOMAIN f \ {x} |-> f[y]])

(* twice the entropy: a change at index i weighs 1 + 0.5 * i, and a color  *)
(* found in count > 1 vials adds (count - 1) * 2                           *)
calculateEntropyX2(state) ==
    LET changes(v) == {i \in 1..(Len(v.segments) - 1) : v.segments[i + 1] # v.segments[i]}
        vialTerm(v) == Sum([i \in changes(v) |-> 2 + i])
    IN Sum([k \in 1..Len(state.vials) |-> vialTerm(state.vials[k])])
       + Sum([c \in ColorsOf(state) |-> 4 * (Cardinality(VialsWith(state, c)) - 1)])

(* locations.length - 1 in place of vialsWithColor.size - 1 *)
calculateFragmentationByLocations(state) ==
    Sum([c \in ColorsOf(state) |->
            Sum([k \in 1..Len(state.vials) |->
                    Cardinality({j \in 1..Len(state.vials[k].segments) :
                                    state.vials[k].segments[j] = c})]) - 1])

calculateFragmentation(state) ==
    Sum([c \in ColorsOf(state) |-> Cardinality(VialsWith(state, c)) - 1])

evaluateBreaksSortedVial(move, state) ==
    LET sourceVial == state.vials[move.sourceVialIndex + 1]
    IN IF Cardinality(ColorsIn(sourceVial)) = 1 /\ Len(sourceVial.segments) > 1 THEN 1 ELSE 0

evaluateMixesDifferentColors(move, state) ==
    LET sourceVial == state.vials[move.sourceVialIndex + 1]
        targetVial == state.vials[move.targetVialIndex + 1]
    IN IF isEmpty(targetVial) THEN 0
       ELSE IF getTopColor(sourceVial) # getTopColor(targetVial) THEN 1 ELSE 0

evaluateDistributesColor(move, state) ==
    LET sourceVial == state.vials[move.sourceVialIndex + 1]
        color == getTopColor(sourceVial)
        colorCount == Cardinality({k \in 1..Len(sourceVial.segments) :
                                      sourceVial.segments[k] = color})
    IN IF colorCount >= 3 THEN 1 ELSE 0

(* twenty times the composite score                                        *)
(* entropy * 0.3 + fragmentation * 0.2 + breaks * 10 + mixes * 5 + distributes * 5 *)
scoreX20(move, currentState) ==
    LET resultState == applyReverseMove(currentState, move)
    IN 3 * calculateEntropyX2(resultState)
       + 4 * calculateFragmentation(resultState)
       + 200 * evaluateBreaksSortedVial(move, currentState)
       + 100 * evaluateMixesDifferentColors(move, currentState)
       + 100 * evaluateDistributesColor(move, currentState)

(* Array.prototype.sort with (a, b) => scoreB - scoreA: stable, descending *)
RECURSIVE insertScored(_, _, _)
insertScored(sorted, x, k) ==
    IF k > Len(sorted) THEN Append(sorted, x)
    ELSE IF sorted[k].score < x.score
         THEN SubSeq(sorted, 1, k - 1) \o <<x>> \o SubSeq(sorted, k, Len(sorted))
         ELSE insertScored(sorted, x, k + 1)

RECURSIVE sortScored(_, _, _)
sortScored(scoredMoves, k, sorted) ==
    IF k > Len(scoredMoves) THEN sorted
    ELSE sortScored(scoredMoves, k + 1, insertScored(sorted, scoredMoves[k], 1))

(* randomIndex is Math.floor(Math.random() * Math.min(3, scoredMoves.length)) *)
selectOptimalReverseMove(moves, currentState, randomIndex) ==
    LET scoredMoves == [k \in 1..Len(moves) |->
                           [move |-> moves[k], score |-> scoreX20(moves[k], currentState)]]
    IN sortScored(scoredMoves, 1, <<>>)[randomIndex + 1].move

(* the capacity checks left out *)
trimToCapacityNone(vials) == vials

(* while (vial.segments.length > vial.capacity) vial.segments.pop() over all vials *)
trimToCapacity(vials) ==
    [k \in 1..Len(vials) |->
        [vials[k] EXCEPT !.segments = SubSeq(@, 1, Min(Len(@), vials[k].capacity))]]

(* the first index j # i, in loop order, whose vial passes the test; -1 if none *)
firstTarget(vials, i, Test(_)) ==
    LET found == {j \in 0..(Len(vials) - 1) : j # i /\ Test(vials[j + 1])}
    IN IF found = {} THEN -1 ELSE CHOOSE j \in found : \A l \in found : j <= l

(* count times: vial.segments.pop(); targetVial.segments.push(color) *)
moveSegments(vials, i, j, color, count) ==
    [vials EXCEPT ![i + 1].segments = PopN(@, count),
                  ![j + 1].segments = PushN(@, color, count)]

(* the last resort of a partial vial: its segments, bottom first, each go  *)
(* to the first vial with room that is empty or topped by that color, or   *)
(* back into the vial                                                      *)
RECURSIVE distributeSegments(_, _, _, _)
distributeSegments(vials, i, segmentsToMove, k) ==
    IF k > Len(segmentsToMove) THEN vials
    ELSE LET segment == segmentsToMove[k]
             j == firstTarget(vials, i, LAMBDA t :
                      ~isFull(t) /\ (isEmpty(t) \/ getTopColor(t) = segment))
             placed == IF j >= 0 THEN j ELSE i
         IN distributeSegments(
                [vials EXCEPT ![placed + 1].segments = Append(@, segment)],
                i, segmentsToMove, k + 1)

(* the body of the for loop for a partially filled vial i *)
redistributeVial(vials, i) ==
    LET vial == vials[i + 1]
        topColor == getTopColor(vial)
        topCount == countTopSegmentsOfSameColor(vial, topColor)
        emptyTarget == firstTarget(vials, i, LAMBDA t : isEmpty(t))
        matchTarget == firstTarget(vials, i, LAMBDA t :
                           /\ ~isFull(t)
                           /\ getTopColor(t) = topColor
                           /\ Min(topCount, t.capacity - Len(t.segments)) > 0)
    IN IF emptyTarget >= 0
       THEN moveSegments(vials, i, emptyTarget, topColor, topCount)
       ELSE IF matchTarget >= 0
       THEN moveSegments(vials, i, matchTarget, topColor,
                Min(topCount, vials[matchTarget + 1].capacity
                                  - Len(vials[matchTarget + 1].segments)))
       ELSE \* no vial is empty here, so the second search for an empty vial fails too
            distributeSegments([vials EXCEPT ![i + 1].segments = <<>>],
                               i, vial.segments, 1)

(* one iteration of while (hasPartiallyFilledVials) *)
RECURSIVE partialPass(_, _, _)
partialPass(vials, i, hasPartiallyFilledVials) ==
    IF i >= Len(vials)
    THEN [vials |-> vials, hasPartiallyFilledVials |-> hasPartiallyFilledVials]
    ELSE IF isEmpty(vials[i + 1]) \/ isFull(vials[i + 1])
    THEN partialPass(vials, i + 1, hasPartiallyFilledVials)
    ELSE partialPass(redistributeVial(vials, i), i + 1, TRUE)

isSortedVial(v) ==
    /\ ~isEmpty(v)
    /\ isFull(v)
    /\ \A k \in 1..Len(v.segments) : v.segments[k] = v.segments[1]

checkForSortedVials(state) == \E k \in 1..Len(state.vials) : isSortedVial(state.vials[k])

(* the indices, in increasing order, of the vials that pass the test *)
indicesWhere(vials, Test(_)) ==
    LET found == {i \in 0..(Len(vials) - 1) : Test(vials[i + 1])}
    IN [k \in 1..Cardinality(found) |->
           CHOOSE i \in found : Cardinality({j \in found : j < i}) = k - 1]

pairPattern(patternType, colorA, colorB) ==
    IF patternType = 0
    THEN <<<<colorA, colorB, colorB, colorB>>, <<colorB, colorA, colorA, colorA>>>>
    ELSE IF patternType = 1
    THEN <<<<colorA, colorA, colorA, colorB>>, <<colorB, colorB, colorB, colorA>>>>
    ELSE <<<<colorA, colorA, colorB, colorB>>, <<colorB, colorA, colorB, colorA>>>>

triplePattern(patternType, colorA, colorB, colorC) ==
    IF patternType = 0
    THEN <<<<colorC, colorA, colorA, colorA>>, <<colorA, colorA, colorB, colorB>>,
           <<colorB, colorB, colorB, colorC>>>>
    ELSE IF patternType = 1
    THEN <<<<colorA, colorB, colorC, colorA>>, <<colorB, colorC, colorA, colorB>>,
           <<colorC, colorA, colorB, colorC>>>>
    ELSE <<<<colorA, colorA, colorB, colorB>>, <<colorB, colorC, colorC, colorA>>,
           <<colorA, colorA, colorB, colorC>>>>

(* the remaining sorted vials, in pairs; patterns[call] is the Math.random draw *)
RECURSIVE pairLoop(_, _, _, _, _)
pairLoop(vials, sortedVialIndices, j, patterns, call) ==
    IF j >= Len(sortedVialIndices) - 1 THEN vials
    ELSE LET a == sortedVialIndices[j + 1]
             b == sortedVialIndices[j + 2]
             pat == pairPattern(patterns[call], vials[a + 1].segments[1], vials[b + 1].segments[1])
         IN pairLoop([vials EXCEPT ![a + 1].segments = pat[1], ![b + 1].segments = pat[2]],
                     sortedVialIndices, j + 2, patterns, call + 1)

(* the sorted vials in groups of three *)
RECURSIVE groupLoop(_, _, _, _, _)
groupLoop(vials, sortedVialIndices, i, patterns, call) ==
    IF i >= Len(sortedVialIndices) THEN vials
    ELSE IF i + 2 >= Len(sortedVialIndices)
    THEN pairLoop(vials, sortedVialIndices, i, patterns, call)
    ELSE LET a == sortedVialIndices[i + 1]
             b == sortedVialIndices[i + 2]
             c == sortedVialIndices[i + 3]
             pat == triplePattern(patterns[call], vials[a + 1].segments[1],
                                  vials[b + 1].segments[1], vials[c + 1].segments[1])
         IN groupLoop([vials EXCEPT ![a + 1].segments = pat[1], ![b + 1].segments = pat[2],
                                    ![c + 1].segments = pat[3]],
                      sortedVialIndices, i + 3, patterns, call + 1)

(* "If still sorted, do one more disruption" for vial i *)
disruptVial(vials, i) ==
    LET otherVialIndex == firstTarget(vials, i, LAMBDA t : ~isEmpty(t) /\ ~Vial_isComplete(t))
        targetColor == vials[i + 1].segments[1]
        otherColor == vials[otherVialIndex + 1].segments[1]
        remainingSpace == vials[otherVialIndex + 1].capacity
        refill == [k \in 1..Min(remainingSpace, 4) |->
                      IF (k - 1) % 2 = 0 \/ (k - 1) >= 3 THEN otherColor ELSE targetColor]
    IN IF otherVialIndex < 0 THEN vials
       ELSE [vials EXCEPT
                ![i + 1].segments = <<targetColor, targetColor, otherColor, targetColor>>,
                ![otherVialIndex + 1].segments = refill]

RECURSIVE disruptLoop(_, _)
disruptLoop(vials, i) ==
    IF i >= Len(vials) THEN vials
    ELSE IF isSortedVial(vials[i + 1]) THEN disruptLoop(disruptVial(vials, i), i + 1)
    ELSE disruptLoop(vials, i + 1)

breakUpSortedVials(state, patterns) ==
    LET sortedVialIndices == indicesWhere(state.vials, isSortedVial)
        emptyVialIndices == indicesWhere(state.vials, isEmpty)
    IN IF Len(sortedVialIndices) <= 1 THEN state
       ELSE IF Len(emptyVialIndices) = 0 THEN state
       ELSE [state EXCEPT !.vials =
                trimToCapacity(disruptLoop(
                    groupLoop(state.vials, sortedVialIndices, 0, patterns, 1), 0))]

(* ensureNoPartiallyFilledVials once its while loop has ended *)
finishPostProcessing(state, patterns) ==
    IF checkForSortedVials(state) THEN breakUpSortedVials(state, patterns)
    ELSE [state EXCEPT !.vials = trimToCapacity(@)]

RECURSIVE reverseSeq(_)
reverseSeq(q) == IF q = <<>> THEN <<>> ELSE Append(reverseSeq(Tail(q)), Head(q))

(* the fields of the level file that the claims read *)
serializeLevel(initialState, shuffledState, moves) ==
    LET reversed == reverseSeq(moves)
    IN [shuffledState |-> [k \in 1..Len(shuffledState.vials) |-> shuffledState.vials[k].segments],
        solutionMoves |-> [k \in 1..Len(reversed) |->
                              [sourceVialIndex |-> reversed[k].targetVialIndex,
                               targetVialIndex |-> reversed[k].sourceVialIndex,
                               colorsToPour |-> reversed[k].colorsToPour]],
        vialCapacity |-> initialState.vials[1].capacity,
        colorCount |-> initialState.colorCount]

(* the play variables of a run that makes no applyMove call *)
PlayIdle ==
    /\ heap = <<>>
    /\ cur = GameState(<<>>, 0, 0)
    /\ recv = cur
    /\ before = cur
    /\ lastMove = NoMove
    /\ outcome = "idle"

GenArgs ==
    [colorCount : (1..GenMaxColors) \cup {PaletteSize + 1},
     vialHeight : 1..GenMaxHeight,
     emptyVials : 0..GenMaxEmpty,
     targetShuffleMoves : 0..GenMaxShuffle]

(* generateLevel up to the start of generateShuffledLevel's loop *)
StartCall(options) ==
    IF options.colorCount > PaletteSize
    THEN /\ gpc' = "threw"
         /\ gstate' = GameState(<<>>, 0, 0)
         /\ visitedStates' = {}
         /\ shuffleMoves' = <<>>
    ELSE LET initialState == initializeGenerator(options.colorCount, options.vialHeight,
                                                 options.emptyVials)
         IN /\ gpc' = "shuffle"
            /\ gstate' = initialState
            /\ visitedStates' = {getStateHash(initialState)}
            /\ shuffleMoves' = <<>>

GenInit ==
    /\ PlayIdle
    /\ LibIdle
    /\ gargs \in GenArgs
    /\ gpc = "start"
    /\ gstate = GameState(<<>>, 0, 0)
    /\ visitedStates = {}
    /\ shuffleMoves = <<>>
    /\ gout = <<>>
    /\ calls = 0
    /\ firstOut = <<>>

GenerateLevel ==
    /\ gpc = "start"
    /\ calls' = 1
    /\ StartCall(gargs)
    /\ UNCHANGED <<gargs, gout, firstOut, playVars, libVars>>

UniqueReverseMoves ==
    filterToUniqueResultStates(getValidReverseMoves(gstate), gstate, visitedStates)

(* one iteration of the while loop of generateShuffledLevel *)
ShuffleStep ==
    /\ gpc = "shuffle"
    /\ Len(shuffleMoves) < gargs.targetShuffleMoves
    /\ Len(UniqueReverseMoves) # 0
    /\ \E randomIndex \in 0..(Min(3, Len(UniqueReverseMoves)) - 1) :
          LET selectedMove == selectOptimalReverseMove(UniqueReverseMoves, gstate, randomIndex)
              currentState == applyReverseMove(gstate, selectedMove)
          IN /\ gstate' = currentState
             /\ shuffleMoves' = Append(shuffleMoves, selectedMove)
             /\ visitedStates' = visitedStates \cup {getStateHash(currentState)}
    /\ UNCHANGED <<gpc, gargs, gout, calls, firstOut, playVars, libVars>>

(* the loop ends; ensureNoPartiallyFilledVials clones the state and trims it *)
ShuffleEnd ==
    /\ gpc = "shuffle"
    /\ \/ Len(shuffleMoves) >= gargs.targetShuffleMoves
       \/ Len(UniqueReverseMoves) = 0
    /\ gpc' = "post"
    /\ gstate' = [gstate EXCEPT !.vials = trimToCapacity(@)]
    /\ UNCHANGED <<gargs, visitedStates, shuffleMoves, gout, calls, firstOut, playVars, libVars>>

MaxPatternDraws == (GenMaxColors \div 3) + 1

(* One iteration of while (hasPartiallyFilledVials) of                     *)
(* ensureNoPartiallyFilledVials.  An iteration that found a partial vial   *)
(* is followed by another; the one that found none is followed by the      *)
(* sorted-vial check and the break-up, serializeLevel, and the return of   *)
(* generateLevel.  patterns are the Math.random draws of the break-up.     *)
PostProcess ==
    /\ gpc = "post"
    /\ LET pass == partialPass(gstate.vials, 0, FALSE)
       IN IF pass.hasPartiallyFilledVials
          THEN /\ gstate' = [gstate EXCEPT !.vials = pass.vials]
               /\ UNCHANGED <<gpc, gout>>
          ELSE /\ \E patterns \in [1..MaxPatternDraws -> 0..2] :
                     LET finalState == finishPostProcessing(gstate, patterns)
                     IN /\ gstate' = finalState
                        /\ gout' = serializeLevel(
                                       initializeGenerator(gargs.colorCount, gargs.vialHeight,
                                                           gargs.emptyVials),
                                       finalState, shuffleMoves)
               /\ gpc' = "done"
    /\ UNCHANGED <<gargs, visitedStates, shuffleMoves, calls, firstOut, playVars, libVars>>

(* the caller runs generateLevel again with the same options *)
CallAgain ==
    /\ gpc = "done"
    /\ calls = 1
    /\ calls' = 2
    /\ firstOut' = gout
    /\ StartCall(gargs)
    /\ UNCHANGED <<gargs, gout, playVars, libVars>>

NextGen == GenerateLevel \/ ShuffleStep \/ ShuffleEnd \/ PostProcess

SpecGen == GenInit /\ [][NextGen]_vars

NextGenTwice == NextGen \/ CallAgain

SpecGenTwice == GenInit /\ [][NextGenTwice]_vars

-----------------------------------------------------------------------------
(* ensureNoPartiallyFilledVials called on a state built by a caller *)

PostMaxVials == 3
PostMaxHeight == 4
PostMaxExcess == 1

(* the states of 1..maxVials vials of one capacity 1..maxHeight, each      *)
(* holding at most maxExcess segments more than its capacity, and the      *)
(* states of one vial more in which every vial is empty or full of one     *)
(* color                                                                   *)
PostStates(maxVials, maxHeight, maxExcess) ==
    {GameState(vs, MaxColor, CountEmpty(vs)) :
        vs \in UNION {{w \in [1..p[1] -> {[segments |-> segs, capacity |-> p[2]] :
                                             segs \in SegSeqs(p[2] + maxExcess)}] :
                          FirstUseOrder(Flatten(w, 1))} :
                      p \in (1..maxVials) \X (1..maxHeight)}
               \cup UNION {{w \in [1..(maxVials + 1) ->
                                      {NewVial(h)} \cup
                                      {[segments |-> [k \in 1..h |-> c], capacity |-> h] :
                                          c \in Colors}] :
                               FirstUseOrder(Flatten(w, 1))} :
                           h \in 1..maxHeight}}

PostInit ==
    /\ PlayIdle
    /\ LibIdle
    /\ gargs \in [state : PostStates(PostMaxVials, PostMaxHeight, PostMaxExcess)]
    /\ gpc = "ensure"
    /\ gstate = GameState(<<>>, 0, 0)
    /\ visitedStates = {}
    /\ shuffleMoves = <<>>
    /\ gout = <<>>
    /\ calls = 0
    /\ firstOut = <<>>

(* const newState = state.clone() and the first capacity check *)
EnsureNoPartiallyFilledVials ==
    /\ gpc = "ensure"
    /\ gpc' = "while"
    /\ gstate' = [gargs.state EXCEPT !.vials = trimToCapacity(@)]
    /\ UNCHANGED <<gargs, visitedStates, shuffleMoves, gout, calls, firstOut, playVars, libVars>>

(* An iteration of while (hasPartiallyFilledVials) that found a partial    *)
(* vial: another iteration follows.  visitedStates holds the vials at the  *)
(* start of each iteration so far; the loop reads nothing but the vials,   *)
(* so once an iteration ends with vials an earlier one started with, the   *)
(* iterations repeat for ever: "forever".                                  *)
WhileHasPartiallyFilledVials ==
    /\ gpc = "while"
    /\ LET pass == partialPass(gstate.vials, 0, FALSE)
       IN /\ pass.hasPartiallyFilledVials
          /\ gstate' = [gstate EXCEPT !.vials = pass.vials]
          /\ visitedStates' = visitedStates \cup {gstate.vials}
          /\ gpc' = IF pass.vials \in visitedStates \cup {gstate.vials}
                    THEN "forever" ELSE "while"
    /\ UNCHANGED <<gargs, shuffleMoves, gout, calls, firstOut, playVars, libVars>>

(* the iteration that found no partial vial, the check for sorted vials    *)
(* and the return                                                          *)
EnsureReturn ==
    /\ gpc = "while"
    /\ ~partialPass(gstate.vials, 0, FALSE).hasPartiallyFilledVials
    /\ \E patterns \in [1..MaxPatternDraws -> 0..2] :
           gstate' = finishPostProcessing(gstate, patterns)
    /\ gpc' = "returned"
    /\ UNCHANGED <<gargs, visitedStates, shuffleMoves, gout, calls, firstOut, playVars, libVars>>

NextPost == EnsureNoPartiallyFilledVials \/ WhileHasPartiallyFilledVials \/ EnsureReturn

SpecPost == PostInit /\ [][NextPost]_vars

-----------------------------------------------------------------------------
(* The batch script scripts/generate.ts.  A vial is its array of colors,   *)
(* a color is its index in COLORS plus one.                                *)

VIAL_CAPACITY == 4
NUMBER_OF_COLORS == 4
EMPTY_VIALS == 2

(* The recorded moves after which the inner loop of a puzzle gives up: the *)
(* script has 200 here.  It is above the 10 steps that a puzzle needs.     *)
BatchMaxAttempts == 11

isLegalMove(from, to) ==
    IF Len(from) = 0 \/ Len(to) >= VIAL_CAPACITY THEN FALSE
    ELSE IF Len(to) = 0 THEN TRUE
    ELSE to[Len(to)] = from[Len(from)]

(* the vials after the call and the value returned *)
performMove(vials, fromIndex, toIndex) ==
    LET from == vials[fromIndex + 1]
        to == vials[toIndex + 1]
    IN IF ~isLegalMove(from, to) THEN [vials |-> vials, success |-> FALSE]
       ELSE [vials |-> [vials EXCEPT ![fromIndex + 1] = SubSeq(from, 1, Len(from) - 1),
                                     ![toIndex + 1] = Append(to, from[Len(from)])],
             success |-> TRUE]

isFullySorted(vial) ==
    Len(vial) = VIAL_CAPACITY /\ Cardinality({vial[k] : k \in 1..Len(vial)}) = 1

(* calculateEntropy of the script: adjacent segments of different colors *)
entropyScore(vials) ==
    Cardinality({p \in (1..Len(vials)) \X (2..VIAL_CAPACITY) :
                    p[2] <= Len(vials[p[1]]) /\ vials[p[1]][p[2]] # vials[p[1]][p[2] - 1]})

BatchInit ==
    /\ PlayIdle
    /\ GenIdle
    /\ HashIdle
    /\ SolverIdle
    /\ RngIdle
    /\ UtilIdle
    /\ RandIdle
    /\ bpc = "outer"
    /\ bvials = <<>>
    /\ bsteps = 0
    /\ battempts = 0
    /\ blastMove = <<>>
    /\ puzzleData = <<>>

(* while (!valid): the start of an iteration, up to the inner loop *)
GenerateSolvablePuzzle ==
    /\ bpc = "outer"
    /\ bvials' = [i \in 1..NUMBER_OF_COLORS |-> [k \in 1..VIAL_CAPACITY |-> i]]
                 \o [i \in 1..EMPTY_VIALS |-> <<>>]
    /\ bsteps' = 0
    /\ battempts' = 0
    /\ blastMove' = <<>>
    /\ bpc' = "inner"
    /\ UNCHANGED <<puzzleData, playVars, genVars, hashVars, solverVars, rngVars, utilVars,
                   randVars>>

(* One iteration of the inner loop; fromIndex and toIndex are the two      *)
(* randomInt draws.  Of steps the loop reads only the length, which is     *)
(* what bsteps holds.  valid = true ends both loops and the function       *)
(* returns puzzleData.                                                     *)
ShuffleAttempt ==
    /\ bpc = "inner"
    /\ battempts < BatchMaxAttempts
    /\ \E fromIndex, toIndex \in 0..(Len(bvials) - 1) :
          IF fromIndex = toIndex
          THEN UNCHANGED batchVars
          ELSE IF /\ blastMove # <<>>
                  /\ blastMove.fromVialIndex = toIndex
                  /\ blastMove.toVialIndex = fromIndex
          THEN UNCHANGED batchVars
          ELSE LET moved == performMove(bvials, fromIndex, toIndex)
                   recorded == moved.success /\ bvials # moved.vials
                   steps == IF recorded THEN bsteps + 1 ELSE bsteps
                   partiallyFilled == {k \in 1..Len(moved.vials) :
                                          /\ Len(moved.vials[k]) > 0
                                          /\ Len(moved.vials[k]) < VIAL_CAPACITY}
                   fullySorted == {k \in 1..Len(moved.vials) : isFullySorted(moved.vials[k])}
                   valid == partiallyFilled = {} /\ fullySorted = {} /\ steps >= 10
               IN /\ bvials' = moved.vials
                  /\ bsteps' = steps
                  /\ battempts' = IF recorded THEN battempts + 1 ELSE battempts
                  /\ blastMove' = IF recorded
                                  THEN [fromVialIndex |-> fromIndex, toVialIndex |-> toIndex]
                                  ELSE blastMove
                  /\ bpc' = IF valid THEN "done" ELSE "inner"
                  /\ puzzleData' = IF valid
                                   THEN [shuffledState |-> moved.vials,
                                         shuffleSteps |-> steps,
                                         score |-> entropyScore(moved.vials)]
                                   ELSE puzzleData
    /\ UNCHANGED <<playVars, genVars, hashVars, solverVars, rngVars, utilVars, randVars>>

(* attempts reached its limit with valid still false: the outer loop goes on *)
InnerLoopEnd ==
    /\ bpc = "inner"
    /\ battempts >= BatchMaxAttempts
    /\ bpc' = "outer"
    /\ UNCHANGED <<bvials, bsteps, battempts, blastMove, puzzleData,
                   playVars, genVars, hashVars, solverVars, rngVars, utilVars, randVars>>

NextBatch == GenerateSolvablePuzzle \/ ShuffleAttempt \/ InnerLoopEnd

(* the script runs on as long as it has a step to take *)
SpecBatch == BatchInit /\ [][NextBatch]_vars /\ WF_vars(NextBatch)

-----------------------------------------------------------------------------
(* Properties of GameState *)

After == Deref(heap, cur)

SourceBefore == before.vials[lastMove.sourceVialIndex + 1]
TargetBefore == before.vials[lastMove.targetVialIndex + 1]
SourceAfter == After.vials[lastMove.sourceVialIndex + 1]
TargetAfter == After.vials[lastMove.targetVialIndex + 1]

ColorTotal(vials, c) ==
    Cardinality({p \in (1..Len(vials)) \X (1..MaxCapacity + 1) :
                    p[2] <= Len(vials[p[1]].segments) /\ vials[p[1]].segments[p[2]] = c})

(* the length of the same-color run at the top of a non-empty vial *)
RunLength(v) ==
    CHOOSE r \in 1..Len(v.segments) :
        /\ \A k \in (Len(v.segments) - r + 1)..Len(v.segments) :
               v.segments[k] = v.segments[Len(v.segments)]
        /\ r = Len(v.segments) \/ v.segments[Len(v.segments) - r] # v.segments[Len(v.segments)]

(* C6: along any sequence of applyMove calls whose moves come from         *)
(* getAvailableMoves() of the current state, every vial holds between 0    *)
(* and capacity segments.                                                  *)
C6_CapacityInvariant ==
    \A k \in 1..Len(After.vials) :
        Len(After.vials[k].segments) >= 0 /\ Len(After.vials[k].segments) <= After.vials[k].capacity

(* a pour that the room in the target cut short and that filled the target *)
C6_Witness ==
    /\ outcome = "returned"
    /\ lastMove.colorsToPour < RunLength(SourceBefore)
    /\ isFull(TargetAfter)

(* C7: applyMove with a move of getAvailableMoves() removes exactly        *)
(* colorsToPour segments from the source, all of the source's top color,   *)
(* appends that many segments of that color to the target, leaves every    *)
(* other vial unchanged, and so preserves the per-color totals.            *)
C7_PourSemantics ==
    outcome = "returned" =>
        LET n == lastMove.colorsToPour
            top == SourceBefore.segments[Len(SourceBefore.segments)]
            kept == Len(SourceBefore.segments) - n
        IN /\ n >= 1 /\ kept >= 0
           /\ SourceAfter.segments = SubSeq(SourceBefore.segments, 1, kept)
           /\ \A k \in (kept + 1)..Len(SourceBefore.segments) : SourceBefore.segments[k] = top
           /\ TargetAfter.segments = TargetBefore.segments \o [k \in 1..n |-> top]
           /\ \A k \in 1..Len(before.vials) :
                  (k # lastMove.sourceVialIndex + 1 /\ k # lastMove.targetVialIndex + 1)
                      => After.vials[k] = before.vials[k]
           /\ Len(After.vials) = Len(before.vials)
           /\ \A c \in Colors : ColorTotal(After.vials, c) = ColorTotal(before.vials, c)

(* a pour of two or more segments onto a non-empty target, with a third    *)
(* vial in the state                                                       *)
C7_Witness ==
    /\ outcome = "returned"
    /\ lastMove.colorsToPour >= 2
    /\ ~isEmpty(TargetBefore)
    /\ Len(before.vials) >= 3

VialIds(gs) == {gs.vials[k] : k \in 1..Len(gs.vials)}

Malformed(s, m) ==
    \/ m.sourceVialIndex < 0 \/ m.sourceVialIndex >= Len(s.vials)
    \/ m.targetVialIndex < 0 \/ m.targetVialIndex >= Len(s.vials)
    \/ isEmpty(s.vials[m.sourceVialIndex + 1])

C9_MalformedMoveIsNoOp ==
    (outcome # "init" /\ Malformed(before, lastMove)) =>
        (outcome = "returned" /\ After.vials = before.vials)

(* C10: getAvailableMoves returns, in row-major order, exactly one move    *)
(* for each ordered pair (i, j), i # j, with vial i non-empty and vial j   *)
(* not full and empty or topped by i's top color; its colorsToPour is the  *)
(* minimum of i's top run and j's room, and is positive.                   *)
Pourable(s, i, j) ==
    /\ i # j
    /\ Len(s.vials[i + 1].segments) > 0
    /\ Len(s.vials[j + 1].segments) < s.vials[j + 1].capacity
    /\ \/ Len(s.vials[j + 1].segments) = 0
       \/ s.vials[j + 1].segments[Len(s.vials[j + 1].segments)]
              = s.vials[i + 1].segments[Len(s.vials[i + 1].segments)]

C10_AvailableMoves ==
    LET s == After
        moves == getAvailableMoves(s)
        idx == 0..(Len(s.vials) - 1)
    IN /\ \A i, j \in idx :
              Pourable(s, i, j) =>
                  Cardinality({k \in 1..Len(moves) :
                                  moves[k].sourceVialIndex = i /\ moves[k].targetVialIndex = j}) = 1
       /\ \A k \in 1..Len(moves) :
              /\ moves[k].sourceVialIndex \in idx /\ moves[k].targetVialIndex \in idx
              /\ Pourable(s, moves[k].sourceVialIndex, moves[k].targetVialIndex)
              /\ moves[k].colorsToPour > 0
              /\ moves[k].colorsToPour =
                     Min(RunLength(s.vials[moves[k].sourceVialIndex + 1]),
                         s.vials[moves[k].targetVialIndex + 1].capacity
                             - Len(s.vials[moves[k].targetVialIndex + 1].segments))
       /\ \A k, l \in 1..Len(moves) :
              k < l => \/ moves[k].sourceVialIndex < moves[l].sourceVialIndex
                       \/ /\ moves[k].sourceVialIndex = moves[l].sourceVialIndex
                          /\ moves[k].targetVialIndex < moves[l].targetVialIndex

(* a state with several moves, one of them cut short by the target's room, *)
(* and a pair of vials between which no pour is possible                   *)
C10_Witness ==
    LET s == After
        moves == getAvailableMoves(s)
    IN /\ Len(moves) >= 2
       /\ \E k \in 1..Len(moves) :
              moves[k].colorsToPour < RunLength(s.vials[moves[k].sourceVialIndex + 1])
       /\ \E i, j \in 0..(Len(s.vials) - 1) :
              i # j /\ ~isEmpty(s.vials[i + 1]) /\ ~Pourable(s, i, j)

-----------------------------------------------------------------------------
(* Properties of the reverse-shuffle generator *)

(* the emitted shuffledState as a GameState of vials of metadata.vialCapacity *)
EmittedState(out) ==
    GameState([k \in 1..Len(out.shuffledState) |->
                  [segments |-> out.shuffledState[k], capacity |-> out.vialCapacity]],
              out.colorCount, 0)

(* applyMove on a state held by value *)
applyMoveTo(s, move) ==
    LET h == [id \in 0..(Len(s.vials) - 1) |-> s.vials[id + 1]]
        gs == [s EXCEPT !.vials = [k \in 1..Len(s.vials) |-> k - 1]]
        r == applyMove(h, gs, move)
    IN Deref(r.heap, r.state)

RECURSIVE applyMoves(_, _, _)
applyMoves(s, moves, k) ==
    IF k > Len(moves) THEN s ELSE applyMoves(applyMoveTo(s, moves[k]), moves, k + 1)

EmittedTotal(out, c) ==
    Cardinality({p \in (1..Len(out.shuffledState)) \X (1..4) :
                    p[2] <= Len(out.shuffledState[p[1]]) /\ out.shuffledState[p[1]][p[2]] = c})

(* C1: applying the emitted solutionMoves in order to the emitted          *)
(* shuffledState via applyMove yields a state where isComplete() is true.  *)
C1_SolvableByConstruction ==
    gpc = "done" => isComplete(applyMoves(EmittedState(gout), gout.solutionMoves, 1))

(* C2: in the emitted shuffledState every color occurs exactly vialHeight  *)
(* times across all vials.                                                 *)
C2_Conservation ==
    gpc = "done" => \A c \in 1..gargs.colorCount : EmittedTotal(gout, c) = gargs.vialHeight

(* C3: two runs of generateLevel with identical arguments yield identical  *)
(* shuffledState and identical solutionMoves.                              *)
C3_Deterministic ==
    (gpc = "done" /\ calls = 2) =>
        /\ gout.shuffledState = firstOut.shuffledState
        /\ gout.solutionMoves = firstOut.solutionMoves

(* C4: the emitted shuffledState has no non-empty fully-sorted vial and no *)
(* partially-filled vial.                                                  *)
C4_QualityGate ==
    gpc = "done" =>
        \A k \in 1..Len(EmittedState(gout).vials) :
            LET v == EmittedState(gout).vials[k]
            IN /\ ~isSortedVial(v)
               /\ (isEmpty(v) \/ isFull(v))

(* C5: generateLevel never returns a puzzle whose final shuffledState is   *)
(* already isComplete().                                                   *)
C5_NeverReturnsSolved ==
    gpc = "done" => ~isComplete(EmittedState(gout))

(* the states generateShuffledLevel went through: the solved state, then   *)
(* the result of each recorded move                                        *)
RECURSIVE shuffleStates(_, _, _)
shuffleStates(state, moves, k) ==
    IF k > Len(moves) THEN <<state>>
    ELSE <<state>> \o shuffleStates(applyReverseMove(state, moves[k]), moves, k + 1)

ShuffleTrace ==
    shuffleStates(initializeGenerator(gargs.colorCount, gargs.vialHeight, gargs.emptyVials),
                  shuffleMoves, 1)

ShuffleHashes == [k \in 1..Len(ShuffleTrace) |-> getStateHash(ShuffleTrace[k])]

(* C35: generateShuffledLevel records at most targetShuffleMoves moves,    *)
(* the hashes of the states along the shuffle, the initial one included,   *)
(* are pairwise distinct, and it returns with fewer moves only when no     *)
(* reverse move from the current state leads to an unvisited hash.         *)
C35_ShuffleBoundAndDedup ==
    gpc \in {"shuffle", "post", "done"} =>
        /\ Len(shuffleMoves) <= gargs.targetShuffleMoves
        /\ \A i, j \in 1..Len(ShuffleHashes) : i # j => ShuffleHashes[i] # ShuffleHashes[j]
        /\ (gpc # "shuffle" /\ Len(shuffleMoves) < gargs.targetShuffleMoves) =>
               LET last == ShuffleTrace[Len(ShuffleTrace)]
                   moves == getValidReverseMoves(last)
               IN \A k \in 1..Len(moves) :
                      \E i \in 1..Len(ShuffleHashes) :
                          getStateHash(applyReverseMove(last, moves[k])) = ShuffleHashes[i]

(* the loop broke early after a move whose only continuation goes back *)
C35_Witness ==
    /\ gpc = "post"
    /\ Len(shuffleMoves) >= 1
    /\ Len(shuffleMoves) < gargs.targetShuffleMoves
    /\ Len(getValidReverseMoves(ShuffleTrace[Len(ShuffleTrace)])) >= 1

(* C38: every state of the shuffle loop, the one handed to the             *)
(* post-processing included, has each vial empty or filled to capacity     *)
(* with a single color: isComplete() holds.                                *)
C38_ShuffleNeverMixes ==
    /\ gpc = "shuffle" => isComplete(gstate) /\ gstate = ShuffleTrace[Len(ShuffleTrace)]
    /\ gpc \in {"shuffle", "post", "done"} =>
           \A k \in 1..Len(ShuffleTrace) :
               \A v \in 1..Len(ShuffleTrace[k].vials) :
                   LET vial == ShuffleTrace[k].vials[v]
                   IN \/ Len(vial.segments) = 0
                      \/ /\ Len(vial.segments) = vial.capacity
                         /\ \A x \in 1..Len(vial.segments) : vial.segments[x] = vial.segments[1]

(* two moves were made and the state handed on is not the solved one *)
C38_Witness ==
    /\ gpc = "post"
    /\ Len(shuffleMoves) = 2
    /\ gargs.vialHeight > 1
    /\ gargs.colorCount > 1
    /\ gstate # initializeGenerator(gargs.colorCount, gargs.vialHeight, gargs.emptyVials)

RespectsCapacity(state) ==
    \A k \in 1..Len(state.vials) : Len(state.vials[k].segments) <= state.vials[k].capacity

C37_CapacityNeverEscapes ==
    gpc = "returned" => RespectsCapacity(gstate)

(* an over-filled input of a height other than 4 came back with a full    *)
(* vial of mixed colors                                                    *)
C37_Witness ==
    /\ gpc = "returned"
    /\ gargs.state.vials[1].capacity # 4
    /\ ~RespectsCapacity(gargs.state)
    /\ \E k \in 1..Len(gstate.vials) :
           /\ isFull(gstate.vials[k])
           /\ ~Vial_isCompleteMonochrome(gstate.vials[k])

(* C40: generateSolvablePuzzle eventually leaves its while (!valid) loop:  *)
(* a run that keeps taking steps reaches the return.                       *)
C40_BatchGeneratorTerminates == <>(bpc = "done")

(* every vial of the script holds one color, so a vial that is full is     *)
(* fully sorted                                                            *)
VialsOfOneColor ==
    \A k \in 1..Len(bvials) : Cardinality({bvials[k][x] : x \in 1..Len(bvials[k])}) <= 1

(* no state the script reaches passes its test: valid stays false *)
BatchNeverValid ==
    /\ bpc # "done"
    /\ VialsOfOneColor
    /\ bpc = "inner" =>
           \/ \E k \in 1..Len(bvials) : Len(bvials[k]) > 0 /\ Len(bvials[k]) < VIAL_CAPACITY
           \/ \E k \in 1..Len(bvials) : isFullySorted(bvials[k])

(* the script made ten recorded moves and more *)
TenStepsRecorded == bpc = "inner" /\ bsteps >= 10 /\ battempts < BatchMaxAttempts

-----------------------------------------------------------------------------
(* GameState.getStateHash on two states built by a caller *)

HashMaxVials == 2
HashMaxLen == 2

(* the states of 0..maxVials vials holding at most maxLen segments *)
HashStates(maxVials, maxLen) ==
    {GameState(vs, MaxColor, CountEmpty(vs)) :
        vs \in UNION {VialSeqs(n, maxLen, n * maxLen) : n \in 0..maxVials}}

HashInit ==
    /\ PlayIdle
    /\ GenIdle
    /\ hpc = "start"
    /\ stateA \in HashStates(HashMaxVials, HashMaxLen)
    /\ stateB \in HashStates(HashMaxVials, HashMaxLen)
    /\ hashes = <<>>
    /\ SolverIdle
    /\ RngIdle
    /\ UtilIdle
    /\ RandIdle
    /\ BatchIdle

(* state1.getStateHash(), state1.getStateHash() again, state2.getStateHash() *)
CompareHashes ==
    /\ hpc = "start"
    /\ hashes' = [a |-> getStateHash(stateA),
                  again |-> getStateHash(stateA),
                  b |-> getStateHash(stateB)]
    /\ hpc' = "done"
    /\ UNCHANGED <<stateA, stateB, playVars, genVars, solverVars, rngVars, utilVars, randVars, batchVars>>

NextHash == CompareHashes

SpecHash == HashInit /\ [][NextHash]_vars

(* C11: getStateHash is the same on repeated calls on an unmodified state, *)
(* equal for two states with identical vial order and contents, and        *)
(* different for two states that differ in vial contents, vial order or    *)
(* number of vials.                                                        *)
C11_StateHash ==
    hpc = "done" =>
        /\ hashes.a = hashes.again
        /\ (stateA.vials = stateB.vials) <=> (hashes.a = hashes.b)

-----------------------------------------------------------------------------
(* solvePuzzle: breadth-first search with pruning *)

SolverMaxVials == 3
SolverMaxCapacity == 3
SolverMaxSegments == 4
SolverMaxSteps == 18

(* state.vials[index] is a Vial, not undefined *)
HasVial(state, index) == index \in 0..(Len(state.vials) - 1)

(* wouldCompleteVial without the test of the colors of the target *)
wouldCompleteVialAnyColor(state, move) ==
    LET sourceVial == state.vials[move.sourceVialIndex + 1]
        targetVial == state.vials[move.targetVialIndex + 1]
        topColor == getTopColor(sourceVial)
    IN IF ~HasVial(state, move.sourceVialIndex) \/ ~HasVial(state, move.targetVialIndex)
       THEN FALSE
       ELSE IF topColor = NoColor THEN FALSE
       ELSE IF Len(sourceVial.segments) = move.colorsToPour THEN TRUE
       ELSE Len(targetVial.segments) + move.colorsToPour = targetVial.capacity

wouldCompleteVial(state, move) ==
    LET sourceVial == state.vials[move.sourceVialIndex + 1]
        targetVial == state.vials[move.targetVialIndex + 1]
        topColor == getTopColor(sourceVial)
    IN IF ~HasVial(state, move.sourceVialIndex) \/ ~HasVial(state, move.targetVialIndex)
       THEN FALSE
       ELSE IF topColor = NoColor THEN FALSE
       ELSE IF Len(sourceVial.segments) = move.colorsToPour THEN TRUE
       ELSE IF Len(targetVial.segments) + move.colorsToPour = targetVial.capacity
            THEN IF isEmpty(targetVial) /\ move.colorsToPour = targetVial.capacity
                 THEN TRUE
                 ELSE Cardinality(ColorsIn(targetVial) \cup {topColor}) = 1
       ELSE FALSE

(* the score prioritizeMoves gives to one move *)
moveScore(move, state) ==
    LET sourceVial == state.vials[move.sourceVialIndex + 1]
        targetVial == state.vials[move.targetVialIndex + 1]
        sourceTopColor == getTopColor(sourceVial)
        targetTopColor == getTopColor(targetVial)
        colorCount == Cardinality(VialsWith(state, sourceTopColor))
    IN IF ~HasVial(state, move.sourceVialIndex) \/ ~HasVial(state, move.targetVialIndex)
       THEN 0 - 999
       ELSE (IF wouldCompleteVial(state, move) THEN 100 ELSE 0)
            + (IF /\ ~isEmpty(targetVial)
                  /\ targetTopColor # NoColor
                  /\ sourceTopColor # NoColor
                  /\ targetTopColor = sourceTopColor
               THEN 50 ELSE 0)
            + (IF sourceTopColor # NoColor /\ colorCount > 1
               THEN 20 * (colorCount - 1) ELSE 0)

(* a sort that is descending but puts the later of two equal scores first *)
prioritizeMovesUnstable(moves, state) ==
    LET n == Len(moves)
        scoredMoves == [k \in 1..n |->
                           [move |-> moves[n + 1 - k],
                            score |-> moveScore(moves[n + 1 - k], state)]]
        sorted == sortScored(scoredMoves, 1, <<>>)
    IN [k \in 1..Len(sorted) |-> sorted[k].move]

prioritizeMoves(moves, state) ==
    LET scoredMoves == [k \in 1..Len(moves) |->
                           [move |-> moves[k], score |-> moveScore(moves[k], state)]]
        sorted == sortScored(scoredMoves, 1, <<>>)
    IN [k \in 1..Len(sorted) |-> sorted[k].move]

(* the loop with i <= move.targetVialIndex: the empty target itself counts *)
hasAnotherEmptyTargetInclusive(state, move) ==
    \E i \in 0..move.targetVialIndex : isEmpty(state.vials[i + 1])

(* an empty vial at an index below the target of the move *)
hasAnotherEmptyTarget(state, move) ==
    \E i \in 0..(move.targetVialIndex - 1) : isEmpty(state.vials[i + 1])

(* the tests of the filter loop that make a move ineffective *)
isPruned(state, move, current) ==
    LET sourceVial == state.vials[move.sourceVialIndex + 1]
        targetVial == state.vials[move.targetVialIndex + 1]
        lastMove_ == current.lastMove
    IN \/ isEmpty(sourceVial)
       \/ isEmpty(targetVial) /\ hasAnotherEmptyTarget(state, move)
       \/ /\ current.hasLastMove
          /\ move.sourceVialIndex = lastMove_.targetVialIndex
          /\ move.targetVialIndex = lastMove_.sourceVialIndex
       \/ /\ current.hasLastMove
          /\ move.sourceVialIndex = lastMove_.targetVialIndex
          /\ Len(sourceVial.segments) > 1
          /\ ~wouldCompleteVial(state, move)

RECURSIVE filterMoves(_, _, _, _)
filterMoves(moves, k, current, effectiveMoves) ==
    IF k > Len(moves) THEN effectiveMoves
    ELSE filterMoves(moves, k + 1, current,
                     IF isPruned(current.state, moves[k], current)
                     THEN effectiveMoves
                     ELSE Append(effectiveMoves, moves[k]))

(* the loop with path: path instead of path: [...path, move] *)
RECURSIVE enqueueLoopKeepsPath(_, _, _, _, _)
enqueueLoopKeepsPath(prioritizedMoves, k, current, q, vis) ==
    IF k > Len(prioritizedMoves) THEN [queue |-> q, visited |-> vis]
    ELSE LET move == prioritizedMoves[k]
             newState == applyMoveTo(current.state, move)
             stateHash == getStateHash(newState)
         IN IF stateHash \notin vis
            THEN enqueueLoopKeepsPath(prioritizedMoves, k + 1, current,
                                      Append(q, [state |-> newState,
                                                 path |-> current.path,
                                                 lastMove |-> move,
                                                 hasLastMove |-> TRUE]),
                                      vis \cup {stateHash})
            ELSE enqueueLoopKeepsPath(prioritizedMoves, k + 1, current, q, vis)

(* the loop with queue.unshift instead of queue.push: depth first *)
RECURSIVE enqueueLoopUnshift(_, _, _, _, _)
enqueueLoopUnshift(prioritizedMoves, k, current, q, vis) ==
    IF k > Len(prioritizedMoves) THEN [queue |-> q, visited |-> vis]
    ELSE LET move == prioritizedMoves[k]
             newState == applyMoveTo(current.state, move)
             stateHash == getStateHash(newState)
         IN IF stateHash \notin vis
            THEN enqueueLoopUnshift(prioritizedMoves, k + 1, current,
                                    <<[state |-> newState,
                                       path |-> Append(current.path, move),
                                       lastMove |-> move,
                                       hasLastMove |-> TRUE]>> \o q,
                                    vis \cup {stateHash})
            ELSE enqueueLoopUnshift(prioritizedMoves, k + 1, current, q, vis)

(* the loop without visited.add(stateHash) *)
RECURSIVE enqueueLoopNoAdd(_, _, _, _, _)
enqueueLoopNoAdd(prioritizedMoves, k, current, q, vis) ==
    IF k > Len(prioritizedMoves) THEN [queue |-> q, visited |-> vis]
    ELSE LET move == prioritizedMoves[k]
             newState == applyMoveTo(current.state, move)
             stateHash == getStateHash(newState)
         IN IF stateHash \notin vis
            THEN enqueueLoopNoAdd(prioritizedMoves, k + 1, current,
                                  Append(q, [state |-> newState,
                                             path |-> Append(current.path, move),
                                             lastMove |-> move,
                                             hasLastMove |-> TRUE]),
                                  vis)
            ELSE enqueueLoopNoAdd(prioritizedMoves, k + 1, current, q, vis)

(* for (const move of prioritizedMoves): [queue, visited] after the loop *)
RECURSIVE enqueueLoop(_, _, _, _, _)
enqueueLoop(prioritizedMoves, k, current, q, vis) ==
    IF k > Len(prioritizedMoves) THEN [queue |-> q, visited |-> vis]
    ELSE LET move == prioritizedMoves[k]
             newState == applyMoveTo(current.state, move)
             stateHash == getStateHash(newState)
         IN IF stateHash \notin vis
            THEN enqueueLoop(prioritizedMoves, k + 1, current,
                             Append(q, [state |-> newState,
                                        path |-> Append(current.path, move),
                                        lastMove |-> move,
                                        hasLastMove |-> TRUE]),
                             vis \cup {stateHash})
            ELSE enqueueLoop(prioritizedMoves, k + 1, current, q, vis)

SolverStates(maxVials, maxCapacity) ==
    {GameState(vs, MaxColor, CountEmpty(vs)) :
        vs \in {<<>>} \cup
               UNION {{w \in VialSeqs(p[1], p[2], SolverMaxSegments) :
                          FirstUseOrder(Flatten(w, 1))} :
                      p \in (1..maxVials) \X (1..maxCapacity)}}

NoResult == [solved |-> FALSE, path |-> <<>>, pathIsNull |-> TRUE, timedOut |-> FALSE]

SolverInit ==
    /\ PlayIdle
    /\ GenIdle
    /\ HashIdle
    /\ RngIdle
    /\ UtilIdle
    /\ RandIdle
    /\ BatchIdle
    /\ spc = "start"
    /\ solverInitialState \in SolverStates(SolverMaxVials, SolverMaxCapacity)
    /\ maxSteps \in 0..SolverMaxSteps
    /\ queue = <<>>
    /\ seen = {}
    /\ statesExplored = 0
    /\ result = NoResult
    /\ exit = "none"

(* the call: startTime, queue, visited and the counters are set up *)
SolvePuzzle ==
    /\ spc = "start"
    /\ queue' = <<[state |-> solverInitialState, path |-> <<>>,
                   lastMove |-> NoMove, hasLastMove |-> FALSE]>>
    /\ seen' = {getStateHash(solverInitialState)}
    /\ statesExplored' = 0
    /\ spc' = "loop"
    /\ UNCHANGED <<solverInitialState, maxSteps, result, exit, playVars, genVars, hashVars, rngVars, utilVars, randVars, batchVars>>

(* the guard with statesExplored < maxSteps - 1 *)
LoopGuardOffByOne == Len(queue) > 0 /\ statesExplored < maxSteps - 1

(* the guard with statesExplored <= maxSteps *)
LoopGuardInclusive == Len(queue) > 0 /\ statesExplored <= maxSteps

LoopGuard == Len(queue) > 0 /\ statesExplored < maxSteps

Return(r, how) ==
    /\ result' = r
    /\ exit' = how
    /\ spc' = "done"

(* Date.now() - startTime > timeoutMs: the clock may have passed the budget *)
(* at the top of any iteration                                             *)
SolverTimeout ==
    /\ spc = "loop"
    /\ LoopGuard
    /\ Return([solved |-> FALSE, path |-> <<>>, pathIsNull |-> TRUE, timedOut |-> TRUE],
              "timeout")
    /\ UNCHANGED <<solverInitialState, maxSteps, queue, seen, statesExplored,
                   playVars, genVars, hashVars, rngVars, utilVars, randVars, batchVars>>

(* an iteration that dequeues a complete state *)
SolverFound ==
    /\ spc = "loop"
    /\ LoopGuard
    /\ isComplete(Head(queue).state)
    /\ queue' = Tail(queue)
    /\ statesExplored' = statesExplored + 1
    /\ Return([solved |-> TRUE, path |-> Head(queue).path, pathIsNull |-> FALSE,
               timedOut |-> FALSE], "complete")
    /\ UNCHANGED <<solverInitialState, maxSteps, seen, playVars, genVars, hashVars, rngVars, utilVars, randVars, batchVars>>

(* an iteration that dequeues a state that is not complete *)
SolverExpand ==
    /\ spc = "loop"
    /\ LoopGuard
    /\ ~isComplete(Head(queue).state)
    /\ LET current == Head(queue)
           moves == getAvailableMoves(current.state)
           effectiveMoves == filterMoves(moves, 1, current, <<>>)
           prioritizedMoves == prioritizeMoves(effectiveMoves, current.state)
           after == enqueueLoop(prioritizedMoves, 1, current, Tail(queue), seen)
       IN /\ queue' = after.queue
          /\ seen' = after.visited
    /\ statesExplored' = statesExplored + 1
    /\ UNCHANGED <<spc, solverInitialState, maxSteps, result, exit, playVars, genVars, hashVars, rngVars, utilVars, randVars, batchVars>>

(* the loop guard fails: the return after the loop *)
SolverExit ==
    /\ spc = "loop"
    /\ ~LoopGuard
    /\ Return([solved |-> FALSE, path |-> <<>>, pathIsNull |-> TRUE,
               timedOut |-> statesExplored >= maxSteps],
              IF Len(queue) = 0 THEN "queueEmpty" ELSE "maxSteps")
    /\ UNCHANGED <<solverInitialState, maxSteps, queue, seen, statesExplored,
                   playVars, genVars, hashVars, rngVars, utilVars, randVars, batchVars>>

NextSolve == SolvePuzzle \/ SolverTimeout \/ SolverFound \/ SolverExpand \/ SolverExit

SpecSolve == SolverInit /\ [][NextSolve]_vars

-----------------------------------------------------------------------------
(* Properties of solvePuzzle *)

(* every move of path is listed by getAvailableMoves() of the state reached *)
(* by the moves before it                                                   *)
RECURSIVE PathIsLegal(_, _, _)
PathIsLegal(s, path, k) ==
    IF k > Len(path) THEN TRUE
    ELSE /\ \E n \in 1..Len(getAvailableMoves(s)) : getAvailableMoves(s)[n] = path[k]
         /\ PathIsLegal(applyMoveTo(s, path[k]), path, k + 1)

Successors(s) ==
    {applyMoveTo(s, getAvailableMoves(s)[n]) : n \in 1..Len(getAvailableMoves(s))}

(* the least number of listed moves that lead from the frontier to a       *)
(* complete state, counted from n; -1 when no complete state is reachable  *)
RECURSIVE Distance(_, _, _)
Distance(frontier, reached, n) ==
    IF \E s \in frontier : isComplete(s) THEN n
    ELSE IF frontier = {} THEN -1
    ELSE LET next == UNION {Successors(s) : s \in frontier} \ reached
         IN Distance(next, reached \cup next, n + 1)

ShortestSolution(s) == Distance({s}, {s}, 0)

(* C12: a result with solved = true has a non-null path of listed moves    *)
(* that leads from the initial state to a complete state; a result with    *)
(* solved = false has a null path.                                         *)
C12_SolverSoundness ==
    spc = "done" =>
        IF result.solved
        THEN /\ ~result.pathIsNull
             /\ PathIsLegal(solverInitialState, result.path, 1)
             /\ isComplete(applyMoves(solverInitialState, result.path, 1))
        ELSE result.pathIsNull

C12_Witness ==
    /\ spc = "done"
    /\ result.solved
    /\ Len(result.path) >= 3

(* the state of three capacity-2 vials [[red, blue], [], []] *)
MinimalScenario ==
    /\ Len(solverInitialState.vials) = 3
    /\ \A k \in 1..3 : solverInitialState.vials[k].capacity = 2
    /\ solverInitialState.vials[1].segments = <<1, 2>>
    /\ solverInitialState.vials[2].segments = <<>>
    /\ solverInitialState.vials[3].segments = <<>>

C14_AlreadySolved ==
    (spc = "done" /\ isComplete(solverInitialState) /\ maxSteps >= 1 /\ exit # "timeout") =>
        /\ result.solved
        /\ ~result.timedOut
        /\ ~result.pathIsNull
        /\ result.path = <<>>

C14_Witness ==
    /\ spc = "done"
    /\ solverInitialState.vials = <<>>
    /\ exit = "complete"

(* C15: when the search stops because the queue became empty the result is *)
(* solved = false, path = null, timedOut = false; timedOut = true only     *)
(* when the clock or the step budget cut the search short.                 *)
C15_ExhaustionIsNotTimeout ==
    spc = "done" =>
        /\ exit = "queueEmpty" =>
              (~result.solved /\ result.pathIsNull /\ ~result.timedOut)
        /\ result.timedOut => exit \in {"timeout", "maxSteps"}

-----------------------------------------------------------------------------
(* SeededRandom and shuffleArray.  A value of next() is held as its        *)
(* numerator over Modulus.  Products are taken by doubling so that no      *)
(* intermediate value leaves the 32-bit range; the doubles of the source   *)
(* hold every product of the recurrence exactly.                           *)

Modulus == 2147483647
Multiplier == 16807

SeedMax == 2
SeedMaxLen == 9
RngMaxCalls == 10
RngMaxOps == 2
ShuffleMaxLen == 4

Abs(x) == IF x < 0 THEN -x ELSE x

(* (x + y) % m for 0 <= x, y < m *)
addMod(x, y, m) == IF x >= m - y THEN x - (m - y) ELSE x + y

(* (a * b) % m for 0 <= a < m and b >= 0 *)
RECURSIVE mulMod(_, _, _)
mulMod(a, b, m) ==
    IF b = 0 THEN 0
    ELSE LET half == mulMod(a, b \div 2, m)
             double == addMod(half, half, m)
         IN IF b % 2 = 1 THEN addMod(double, a, m) ELSE double

(* (seed * 16807) % 2147483647 with the sign of the dividend, as % of JavaScript *)
lcgStep(seed) ==
    LET r == mulMod(Abs(seed) % Modulus, Multiplier, Modulus)
    IN IF seed < 0 THEN -r ELSE r

(* [q, r] with a * b = q * m + r and 0 <= r < m, for 0 <= a < m and b >= 0 *)
RECURSIVE mulDiv(_, _, _)
mulDiv(a, b, m) ==
    IF b = 0 THEN [q |-> 0, r |-> 0]
    ELSE LET p == mulDiv(a, b - 1, m)
         IN IF p.r >= m - a THEN [q |-> p.q + 1, r |-> p.r - (m - a)]
            ELSE [q |-> p.q, r |-> p.r + a]

(* Math.floor((numerator / Modulus) * range) *)
floorScaled(numerator, range) ==
    LET p == mulDiv(Abs(numerator), range, Modulus)
    IN IF numerator >= 0 THEN p.q
       ELSE IF p.r = 0 THEN -p.q ELSE -(p.q + 1)

(* a 32-bit word as two 16-bit halves *)
Word(x) == [hi |-> (x \div 65536) % 65536, lo |-> x % 65536]

(* ToInt32 *)
toInt32(w) == IF w.hi >= 32768 THEN (w.hi - 65536) * 65536 + w.lo ELSE w.hi * 65536 + w.lo

(* hash << 5 *)
shiftLeft5(w) ==
    [hi |-> (w.hi * 32 + (w.lo * 32) \div 65536) % 65536, lo |-> (w.lo * 32) % 65536]

(* (a - b + c) | 0 for words a, b and a char code c *)
subAdd(a, b, c) ==
    LET lo == a.lo - b.lo + c
        hi == a.hi - b.hi + (lo \div 65536)
    IN [hi |-> hi % 65536, lo |-> lo % 65536]

(* the loop of the constructor over the char codes of a string seed *)
RECURSIVE foldString(_, _, _)
foldString(str, i, hash) ==
    IF i > Len(str) THEN hash
    ELSE foldString(str, i + 1,
                    toInt32(subAdd(shiftLeft5(Word(hash)), Word(hash), str[i])))

(* new SeededRandom(seed) *)
SeededRandom(seed) ==
    IF seed.isString THEN [seed |-> foldString(seed.str, 1, 0)] ELSE [seed |-> seed.num]

(* next() returning Math.floor(this.seed / 2147483647) *)
nextFloored(rs, i) ==
    LET seed == lcgStep(rs[i].seed)
    IN [rngs |-> [rs EXCEPT ![i] = [seed |-> seed]], value |-> seed \div Modulus]

(* next() with seed as a static field: one seed for every instance *)
nextStatic(rs, i) ==
    LET seed == lcgStep(rs[i].seed)
    IN [rngs |-> [j \in DOMAIN rs |-> [seed |-> seed]], value |-> seed]

(* rngs[i].next(): the instances after the call and the value returned *)
next(rs, i) ==
    LET seed == lcgStep(rs[i].seed)
    IN [rngs |-> [rs EXCEPT ![i] = [seed |-> seed]], value |-> seed]

(* rngs[i].nextInt(min, max) *)
nextInt(rs, i, min, max) ==
    LET n == next(rs, i)
    IN [rngs |-> n.rngs, value |-> floorScaled(n.value, max - min) + min]

(* an array element that is undefined *)
Undefined == 0

(* result[j]: undefined outside the array *)
At(res, j) == IF j >= 0 /\ j < Len(res) THEN res[j + 1] ELSE Undefined

(* the loop with result[i] = result[j] and no write of temp to result[j] *)
RECURSIVE shuffleLoopNoTemp(_, _, _, _)
shuffleLoopNoTemp(res, i, rs, inst) ==
    IF i <= 0 THEN [rngs |-> rs, value |-> res]
    ELSE LET n == nextInt(rs, inst, 0, i + 1)
             j == n.value
             temp == At(res, i)
         IN IF temp # Undefined /\ At(res, j) # Undefined
            THEN shuffleLoopNoTemp([res EXCEPT ![i + 1] = res[j + 1]],
                                   i - 1, n.rngs, inst)
            ELSE shuffleLoopNoTemp(res, i - 1, n.rngs, inst)

(* the Fisher-Yates loop of shuffleArray from index i down to 1 (0-based) *)
RECURSIVE shuffleLoop(_, _, _, _)
shuffleLoop(res, i, rs, inst) ==
    IF i <= 0 THEN [rngs |-> rs, value |-> res]
    ELSE LET n == nextInt(rs, inst, 0, i + 1)
             j == n.value
             temp == At(res, i)
         IN IF temp # Undefined /\ At(res, j) # Undefined
            THEN shuffleLoop([res EXCEPT ![i + 1] = res[j + 1], ![j + 1] = temp],
                             i - 1, n.rngs, inst)
            ELSE shuffleLoop(res, i - 1, n.rngs, inst)

(* shuffleArray(array, rngs[i]) *)
shuffleArray(array, rs, i) == shuffleLoop(array, Len(array) - 1, rs, i)

(* "test-seed-solvable" as char codes *)
TestSeed ==
    <<116, 101, 115, 116, 45, 115, 101, 101, 100, 45, 115, 111, 108, 118, 97, 98, 108, 101>>

NumberSeed(n) == [isString |-> FALSE, num |-> n, str |-> <<>>]
StringSeed(str) == [isString |-> TRUE, num |-> 0, str |-> str]

SeedArgs ==
    {NumberSeed(n) : n \in (-SeedMax..SeedMax) \cup {123, 456, Modulus - 1, Modulus}}
    \cup {StringSeed(SubSeq(TestSeed, 1, n)) : n \in 1..Min(SeedMaxLen, Len(TestSeed))}

CallArgs ==
    {[min |-> 0, max |-> 0, array |-> <<>>]}
    \cup {[min |-> p[1], max |-> p[2], array |-> <<>>] :
             p \in {<<0, 1>>, <<5, 10>>, <<0, ShuffleMaxLen>>}}
    \cup {[min |-> 0, max |-> 0, array |-> [k \in 1..n |-> k]] : n \in 2..ShuffleMaxLen}
    \cup {[min |-> 0, max |-> 0, array |-> a] :
             a \in {<<1>>, <<1, 1, 2>>, <<1, Undefined, 2>>}}

ScriptOf(a) ==
    IF a.array # <<>> THEN "shuffleArray" ELSE IF a.min < a.max THEN "nextInt" ELSE "next"

RngInit ==
    /\ PlayIdle
    /\ GenIdle
    /\ HashIdle
    /\ SolverIdle
    /\ UtilIdle
    /\ RandIdle
    /\ BatchIdle
    /\ callArgs \in CallArgs
    /\ script = ScriptOf(callArgs)
    /\ seeds \in [1..2 -> SeedArgs]
    /\ rngs = [i \in 1..2 |-> SeededRandom(seeds[i])]
    /\ outs = [i \in 1..2 |-> <<>>]

Returned(i, r) ==
    /\ rngs' = r.rngs
    /\ outs' = [outs EXCEPT ![i] = Append(@, r.value)]
    /\ UNCHANGED <<script, seeds, callArgs, playVars, genVars, hashVars, solverVars,
                   utilVars, randVars, batchVars>>

CallNext ==
    /\ script = "next"
    /\ \E i \in 1..2 :
          /\ Len(outs[i]) < RngMaxCalls
          /\ Returned(i, next(rngs, i))

CallNextInt ==
    /\ script = "nextInt"
    /\ \E i \in 1..2 :
          /\ Len(outs[i]) < RngMaxOps
          /\ Returned(i, nextInt(rngs, i, callArgs.min, callArgs.max))

CallShuffleArray ==
    /\ script = "shuffleArray"
    /\ \E i \in 1..2 :
          /\ Len(outs[i]) < RngMaxOps
          /\ Returned(i, shuffleArray(callArgs.array, rngs, i))

NextRng == CallNext \/ CallNextInt \/ CallShuffleArray

SpecRng == RngInit /\ [][NextRng]_vars

-----------------------------------------------------------------------------
(* Properties of SeededRandom *)

SequenceLength == 10

Shorter(a, b) == Min(Len(a), Len(b))

(* C18: two instances constructed with the same seed, number or string,    *)
(* return identical values at every call index of next(), and identical    *)
(* results of nextInt and of shuffleArray on equal arrays.                 *)
C18_SameSeedSameSequence ==
    (script # "idle" /\ seeds[1] = seeds[2]) =>
        \A k \in 1..Shorter(outs[1], outs[2]) : outs[1][k] = outs[2][k]

C18_Witness ==
    /\ script = "shuffleArray"
    /\ seeds[1] = seeds[2]
    /\ seeds[1].isString
    /\ Len(outs[1]) = RngMaxOps
    /\ Len(outs[2]) = RngMaxOps
    /\ outs[1][1] # callArgs.array

(* C19: for every seed the constructor accepts, every value v of next()    *)
(* has 0 <= v < 1 and every value n of nextInt(min, max) with min < max    *)
(* has min <= n < max.                                                     *)
C19_OutputRange ==
    \A i \in DOMAIN outs : \A k \in 1..Len(outs[i]) :
        /\ script = "next" => (0 <= outs[i][k] /\ outs[i][k] < Modulus)
        /\ script = "nextInt" => (callArgs.min <= outs[i][k] /\ outs[i][k] < callArgs.max)

FirstValues(i) == SubSeq(outs[i], 1, SequenceLength)

TwoNumericSeeds ==
    /\ script = "next"
    /\ ~seeds[1].isString
    /\ ~seeds[2].isString
    /\ seeds[1].num # seeds[2].num
    /\ Len(outs[1]) >= SequenceLength
    /\ Len(outs[2]) >= SequenceLength

(* C20: for any two distinct numeric seeds the sequences of the first 10   *)
(* values of next() are not equal.                                         *)
C20_DifferentSeedsDiffer ==
    TwoNumericSeeds => FirstValues(1) # FirstValues(2)

(* C20 as amended: for any two distinct integer seeds s with               *)
(* 0 < s < 2147483647 the sequences of the first 10 values of next() are   *)
(* not equal.                                                              *)
C20_DifferentSeedsInRangeDiffer ==
    (/\ TwoNumericSeeds
     /\ \A i \in 1..2 : 0 < seeds[i].num /\ seeds[i].num < Modulus) =>
        FirstValues(1) # FirstValues(2)

C20_Witness ==
    /\ TwoNumericSeeds
    /\ seeds[1].num = 123
    /\ seeds[2].num = 456

Count(seq, x) == Cardinality({k \in 1..Len(seq) : seq[k] = x})

SameElements(a, b) ==
    /\ Len(a) = Len(b)
    /\ \A x \in {a[k] : k \in 1..Len(a)} \cup {b[k] : k \in 1..Len(b)} :
           Count(a, x) = Count(b, x)

(* C21: shuffleArray returns a permutation: for every input array and      *)
(* every state of the SeededRandom, the result has the length of the input *)
(* and holds every element as many times as the input does.                *)
C21_ShuffleIsPermutation ==
    script = "shuffleArray" =>
        \A i \in 1..2 : \A k \in 1..Len(outs[i]) : SameElements(outs[i][k], callArgs.array)

C21_Witness ==
    /\ script = "shuffleArray"
    /\ Len(callArgs.array) = ShuffleMaxLen
    /\ seeds[1].num > 0
    /\ seeds[2].num < 0
    /\ Len(outs[1]) = RngMaxOps
    /\ Len(outs[2]) = RngMaxOps
    /\ outs[1][1] # callArgs.array
    /\ outs[1][2] # outs[1][1]


-----------------------------------------------------------------------------
(* puzzle-utils: createInitialState, randomizeVials, addEmptyVials and     *)
(* wouldCompleteVial, called on objects of the caller.  A GameState object *)
(* holds the ids of its Vial objects.                                      *)

UtilMaxVials == 2
UtilMaxCapacity == 3
UtilMaxSegments == 4
UtilMaxCount == 3

(* new T(...): the object is stored under the least id not in use *)
New(h, obj) == LET id == NextFree(h) IN [heap |-> h @@ (id :> obj), ref |-> id]

RECURSIVE newVials(_, _, _, _)
newVials(h, vials, k, acc) ==
    IF k > Len(vials) THEN [heap |-> h, refs |-> acc]
    ELSE LET n == New(h, vials[k])
         IN newVials(n.heap, vials, k + 1, Append(acc, n.ref))

(* the GameState object ref with its vials fetched *)
StateAt(h, ref) == Deref(h, h[ref])

(* a palette lookup that never fails: every vial gets the first color *)
createInitialStateFirstColor(colorCount, vialHeight, emptyVialCount) ==
    IF colorCount > PaletteSize
    THEN [threw |-> TRUE, state |-> GameState(<<>>, 0, 0)]
    ELSE [threw |-> FALSE,
          state |-> GameState([i \in 1..colorCount |->
                                  [segments |-> [j \in 1..vialHeight |-> 1],
                                   capacity |-> vialHeight]]
                              \o [i \in 1..emptyVialCount |-> NewVial(vialHeight)],
                              colorCount, emptyVialCount)]

(* no test of colorCount: colorPalette[i] is undefined past the palette    *)
(* and such a vial is left empty                                           *)
createInitialStateUnchecked(colorCount, vialHeight, emptyVialCount) ==
    [threw |-> FALSE,
     state |-> GameState([i \in 1..colorCount |->
                             [segments |-> IF i <= PaletteSize
                                           THEN [j \in 1..vialHeight |-> i] ELSE <<>>,
                              capacity |-> vialHeight]]
                         \o [i \in 1..emptyVialCount |-> NewVial(vialHeight)],
                         colorCount, emptyVialCount)]

(* the color colorPalette[i - 1] is i *)
createInitialState(colorCount, vialHeight, emptyVialCount) ==
    IF colorCount > PaletteSize
    THEN [threw |-> TRUE, state |-> GameState(<<>>, 0, 0)]
    ELSE [threw |-> FALSE,
          state |-> GameState([i \in 1..colorCount |->
                                  [segments |-> [j \in 1..vialHeight |-> i],
                                   capacity |-> vialHeight]]
                              \o [i \in 1..emptyVialCount |-> NewVial(vialHeight)],
                              colorCount, emptyVialCount)]

(* a clone that is the receiver itself *)
cloneInPlace(h, ref) == [heap |-> h, ref |-> ref]

(* state.clone() on the GameState object ref: a new GameState object *)
cloneObject(h, ref) ==
    LET c == clone(h, h[ref])
    IN New(c.heap, c.state)

(* the redistribution with segmentIndex restarting at 0 for every vial *)
RECURSIVE redistributeFromStart(_, _, _, _, _)
redistributeFromStart(h, vialRefs, k, shuffledSegments, segmentIndex) ==
    IF k > Len(vialRefs) THEN h
    ELSE LET vial == h[vialRefs[k]]
             count == Min(vial.capacity, Len(shuffledSegments))
         IN redistributeFromStart(
                [h EXCEPT ![vialRefs[k]].segments = SubSeq(shuffledSegments, 1, count)],
                vialRefs, k + 1, shuffledSegments, 0)

(* the loop over filledVialIndices that fills each vial to capacity while  *)
(* segments are left                                                       *)
RECURSIVE redistribute(_, _, _, _, _)
redistribute(h, vialRefs, k, shuffledSegments, segmentIndex) ==
    IF k > Len(vialRefs) THEN h
    ELSE LET vial == h[vialRefs[k]]
             count == Min(vial.capacity, Len(shuffledSegments) - segmentIndex)
         IN redistribute(
                [h EXCEPT ![vialRefs[k]].segments =
                     @ \o SubSeq(shuffledSegments, segmentIndex + 1, segmentIndex + count)],
                vialRefs, k + 1, shuffledSegments, segmentIndex + count)

(* randomizeVials(state, rngs[i]): the heap, the new GameState object and  *)
(* the instances after the call                                            *)
randomizeVials(h, state, rs, i) ==
    LET c == cloneObject(h, state)
        newState == c.heap[c.ref]
        filledVialRefs == SelectSeq(newState.vials, LAMBDA id : ~isEmpty(c.heap[id]))
        allSegments == Flatten([k \in 1..Len(filledVialRefs) |-> c.heap[filledVialRefs[k]]], 1)
        cleared == [id \in DOMAIN c.heap |->
                       IF \E k \in 1..Len(filledVialRefs) : filledVialRefs[k] = id
                       THEN [c.heap[id] EXCEPT !.segments = <<>>] ELSE c.heap[id]]
        shuffled == shuffleArray(allSegments, rs, i)
    IN [heap |-> redistribute(cleared, filledVialRefs, 1, shuffled.value, 0),
        ref |-> c.ref, rngs |-> shuffled.rngs]

(* addEmptyVials that pushes emptyVialCount vials whatever the state holds *)
addEmptyVialsAlways(h, state, emptyVialCount) ==
    LET c == cloneObject(h, state)
        newState == c.heap[c.ref]
        added == IF Len(newState.vials) > 0
                 THEN newVials(c.heap, [k \in 1..emptyVialCount |->
                                           NewVial(c.heap[newState.vials[1]].capacity)],
                               1, <<>>)
                 ELSE [heap |-> c.heap, refs |-> <<>>]
        vials == newState.vials \o added.refs
    IN [heap |-> [added.heap EXCEPT ![c.ref] =
                     [vials |-> vials, colorCount |-> newState.colorCount,
                      emptyVialCount |-> emptyVialCount, totalVials |-> Len(vials)]],
        ref |-> c.ref]

(* addEmptyVials(state, emptyVialCount): the heap and the new GameState object *)
addEmptyVials(h, state, emptyVialCount) ==
    LET c == cloneObject(h, state)
        newState == c.heap[c.ref]
        currentEmpty == Cardinality({k \in 1..Len(newState.vials) :
                                        isEmpty(c.heap[newState.vials[k]])})
        vialCountToAdd == emptyVialCount - currentEmpty
        added == IF Len(newState.vials) > 0
                 THEN newVials(c.heap, [k \in 1..vialCountToAdd |->
                                           NewVial(c.heap[newState.vials[1]].capacity)],
                               1, <<>>)
                 ELSE [heap |-> c.heap, refs |-> <<>>]
        vials == newState.vials \o added.refs
    IN [heap |-> [added.heap EXCEPT ![c.ref] =
                     [vials |-> vials, colorCount |-> newState.colorCount,
                      emptyVialCount |-> emptyVialCount, totalVials |-> Len(vials)]],
        ref |-> c.ref]

(* const result = [...array] writing into the argument instead *)
shuffleArrayInPlace(h, array, rs, i) ==
    LET r == shuffleArray(h[array].elems, rs, i)
    IN [heap |-> [h EXCEPT ![array] = [elems |-> r.value]], ref |-> array, rngs |-> r.rngs]

(* shuffleArray(array, rngs[i]) on the array object: result is a new array *)
shuffleArrayObject(h, array, rs, i) ==
    LET r == shuffleArray(h[array].elems, rs, i)
        n == New(h, [elems |-> r.value])
    IN [heap |-> n.heap, ref |-> n.ref, rngs |-> r.rngs]

NoArgs ==
    [op |-> "none", colorCount |-> 0, vialHeight |-> 0, emptyVialCount |-> 0,
     input |-> GameState(<<>>, 0, 0), seed |-> 0, move |-> NoMove, array |-> <<>>,
     moves |-> <<>>]

(* moves a caller may list for state s: the moves of getAvailableMoves(),  *)
(* a pour of one segment between any two vials, as the tests write them,   *)
(* and a move whose source index names no vial                             *)
MovesFor(s) ==
    LET n == Len(s.vials)
        pairs == SelectSeq([p \in 1..(n * n) |->
                               [sourceVialIndex |-> (p - 1) \div n,
                                targetVialIndex |-> (p - 1) % n,
                                colorsToPour |-> 1]],
                           LAMBDA m : m.sourceVialIndex # m.targetVialIndex)
    IN <<[sourceVialIndex |-> n, targetVialIndex |-> 0, colorsToPour |-> 1]>>
       \o getAvailableMoves(s) \o pairs

(* the orders in which the moves are listed: as they are, with the first  *)
(* move put last, and in reverse                                           *)
MoveLists(s) ==
    LET all == MovesFor(s)
        n == Len(all)
    IN {all, Tail(all) \o <<Head(all)>>, [i \in 1..n |-> all[n + 1 - i]]}

UtilStates(maxVials, maxCapacity) ==
    {GameState(vs, MaxColor, CountEmpty(vs)) :
        vs \in {<<>>} \cup
               UNION {{w \in VialSeqs(p[1], p[2], UtilMaxSegments) :
                          FirstUseOrder(Flatten(w, 1))} :
                      p \in (1..maxVials) \X (1..maxCapacity)}}

UtilSeeds == {1, 123, 456, -2}

UtilCalls(maxCount) ==
    {[NoArgs EXCEPT !.op = "createInitialState", !.colorCount = a[1],
                    !.vialHeight = a[2], !.emptyVialCount = a[3]] :
        a \in ((0..maxCount) \cup {PaletteSize, PaletteSize + 1, PaletteSize + 3})
              \X (0..maxCount) \X (0..maxCount)}
    \cup {[NoArgs EXCEPT !.op = "randomizeVials", !.input = a[1], !.seed = a[2]] :
             a \in UtilStates(UtilMaxVials, UtilMaxCapacity) \X UtilSeeds}
    \cup {[NoArgs EXCEPT !.op = "addEmptyVials", !.input = a[1], !.emptyVialCount = a[2]] :
             a \in UtilStates(UtilMaxVials, UtilMaxCapacity) \X (0..maxCount)}
    \cup UNION {{[NoArgs EXCEPT !.op = "wouldCompleteVial", !.input = s,
                                !.move = getAvailableMoves(s)[n]] :
                    n \in 1..Len(getAvailableMoves(s))} : s \in UtilStates(UtilMaxVials, UtilMaxCapacity)}
    \cup {[NoArgs EXCEPT !.op = "shuffleArray", !.array = a[1], !.seed = a[2]] :
             a \in {<<>>, <<1>>, <<1, 2>>, <<1, 2, 3>>, <<2, 1, 1, 3>>} \X UtilSeeds}
    \cup UNION {{[NoArgs EXCEPT !.op = "prioritizeMoves", !.input = s, !.moves = ms] :
                    ms \in MoveLists(s)} : s \in UtilStates(UtilMaxVials, UtilMaxCapacity)}
    \cup {[NoArgs EXCEPT !.op = "calculateFragmentation", !.input = s] :
             s \in UtilStates(UtilMaxVials, UtilMaxCapacity)}

(* the caller's objects before the call: the vials of the input state at   *)
(* 0..n-1 and the GameState object at n, or the array at 0                 *)
ObjectsOf(call) ==
    IF call.op = "shuffleArray" THEN [id \in {0} |-> [elems |-> call.array]]
    ELSE LET n == Len(call.input.vials)
         IN [id \in 0..n |->
                IF id < n THEN call.input.vials[id + 1]
                ELSE [call.input EXCEPT !.vials = [k \in 1..n |-> k - 1]]]

(* the object passed to the call *)
ArgRef(call) == IF call.op = "shuffleArray" THEN 0 ELSE Len(call.input.vials)

NoReturn == [threw |-> FALSE, ref |-> -1, value |-> FALSE]

UtilInit ==
    /\ PlayIdle
    /\ GenIdle
    /\ HashIdle
    /\ SolverIdle
    /\ RngIdle
    /\ RandIdle
    /\ BatchIdle
    /\ upc = "start"
    /\ ucall \in UtilCalls(UtilMaxCount)
    /\ objs = ObjectsOf(ucall)
    /\ uret = NoReturn

UtilReturn(h, r) ==
    /\ objs' = h
    /\ uret' = r
    /\ upc' = "done"
    /\ UNCHANGED <<ucall, playVars, genVars, hashVars, solverVars, rngVars, randVars, batchVars>>

CallCreateInitialState ==
    /\ upc = "start"
    /\ ucall.op = "createInitialState"
    /\ LET r == createInitialState(ucall.colorCount, ucall.vialHeight, ucall.emptyVialCount)
           v == newVials(objs, r.state.vials, 1, <<>>)
           s == New(v.heap, [r.state EXCEPT !.vials = v.refs])
       IN IF r.threw THEN UtilReturn(objs, [NoReturn EXCEPT !.threw = TRUE])
          ELSE UtilReturn(s.heap, [NoReturn EXCEPT !.ref = s.ref])

CallRandomizeVials ==
    /\ upc = "start"
    /\ ucall.op = "randomizeVials"
    /\ LET r == randomizeVials(objs, ArgRef(ucall), <<SeededRandom(NumberSeed(ucall.seed))>>, 1)
       IN UtilReturn(r.heap, [NoReturn EXCEPT !.ref = r.ref])

CallAddEmptyVials ==
    /\ upc = "start"
    /\ ucall.op = "addEmptyVials"
    /\ LET r == addEmptyVials(objs, ArgRef(ucall), ucall.emptyVialCount)
       IN UtilReturn(r.heap, [NoReturn EXCEPT !.ref = r.ref])

CallWouldCompleteVial ==
    /\ upc = "start"
    /\ ucall.op = "wouldCompleteVial"
    /\ UtilReturn(objs, [NoReturn EXCEPT
                            !.value = wouldCompleteVial(StateAt(objs, ArgRef(ucall)), ucall.move)])

CallShuffleArrayObject ==
    /\ upc = "start"
    /\ ucall.op = "shuffleArray"
    /\ LET r == shuffleArrayObject(objs, ArgRef(ucall),
                                   <<SeededRandom(NumberSeed(ucall.seed))>>, 1)
       IN UtilReturn(r.heap, [NoReturn EXCEPT !.ref = r.ref])

CallPrioritizeMoves ==
    /\ upc = "start"
    /\ ucall.op = "prioritizeMoves"
    /\ UtilReturn(objs, [NoReturn EXCEPT
                            !.value = prioritizeMoves(ucall.moves,
                                                      StateAt(objs, ArgRef(ucall)))])

CallCalculateFragmentation ==
    /\ upc = "start"
    /\ ucall.op = "calculateFragmentation"
    /\ UtilReturn(objs, [NoReturn EXCEPT
                            !.value = calculateFragmentation(StateAt(objs, ArgRef(ucall)))])

NextUtil ==
    \/ CallPrioritizeMoves
    \/ CallCalculateFragmentation
    \/ CallCreateInitialState
    \/ CallRandomizeVials
    \/ CallAddEmptyVials
    \/ CallWouldCompleteVial
    \/ CallShuffleArrayObject

SpecUtil == UtilInit /\ [][NextUtil]_vars


-----------------------------------------------------------------------------
(* Properties of shuffleArray on an array object and of puzzle-utils *)

Called(op) == upc = "done" /\ ucall.op = op

(* the GameState object the call returned *)
Returned_state == StateAt(objs, uret.ref)

(* C22: shuffleArray leaves the array it is given as it was, and           *)
(* randomizeVials and addEmptyVials leave the GameState they are given as  *)
(* it was: vial contents, vial count, emptyVialCount and totalVials.       *)
C22_InputsUntouched ==
    /\ Called("shuffleArray") => objs[ArgRef(ucall)].elems = ucall.array
    /\ (Called("randomizeVials") \/ Called("addEmptyVials")) =>
           StateAt(objs, ArgRef(ucall)) = ucall.input

C22_Witness ==
    /\ Called("randomizeVials")
    /\ Returned_state.vials # ucall.input.vials
    /\ StateAt(objs, ArgRef(ucall)) = ucall.input

(* C26: createInitialState with colorCount above the palette size throws   *)
(* and produces no state, whatever vialHeight and emptyVialCount are.      *)
C26_InvalidConfigurationThrows ==
    (Called("createInitialState") /\ ucall.colorCount > PaletteSize) =>
        /\ uret.threw
        /\ uret.ref = NoReturn.ref
        /\ objs = ObjectsOf(ucall)

C26_Witness ==
    /\ Called("createInitialState")
    /\ ucall.colorCount = PaletteSize + 1
    /\ ucall.vialHeight > 0
    /\ uret.threw

(* C27: for colorCount <= 12 createInitialState returns colorCount +        *)
(* emptyVialCount vials of capacity vialHeight; each of the first          *)
(* colorCount is filled to vialHeight with one color, different from the   *)
(* color of every other vial; the others are empty; the state is complete. *)
C27_InitialSolvedState ==
    (Called("createInitialState") /\ ucall.colorCount <= PaletteSize) =>
        /\ ~uret.threw
        /\ LET vials == Returned_state.vials
               filled == 1..ucall.colorCount
           IN /\ Len(vials) = ucall.colorCount + ucall.emptyVialCount
              /\ \A k \in 1..Len(vials) : vials[k].capacity = ucall.vialHeight
              /\ \A k \in filled :
                     /\ Len(vials[k].segments) = ucall.vialHeight
                     /\ Cardinality(ColorsIn(vials[k])) <= 1
              /\ \A k \in filled : \A m \in filled \ {k} :
                     ColorsIn(vials[k]) \cap ColorsIn(vials[m]) = {}
              /\ \A k \in (1..Len(vials)) \ filled : isEmpty(vials[k])
              /\ isComplete(Returned_state)

C27_Witness ==
    /\ Called("createInitialState")
    /\ ucall.colorCount = PaletteSize
    /\ ucall.vialHeight = UtilMaxCount
    /\ ucall.emptyVialCount = UtilMaxCount
    /\ Len(Returned_state.vials) = PaletteSize + UtilMaxCount

(* the number of segments of a color in a state *)
SegmentsOfColor(state, color) == Count(Flatten(state.vials, 1), color)

ConservesAndKeepsSlots(in, out) ==
    /\ Len(out.vials) = Len(in.vials)
    /\ \A c \in ColorsOf(in) \cup ColorsOf(out) : SegmentsOfColor(out, c) = SegmentsOfColor(in, c)
    /\ \A k \in 1..Len(in.vials) :
           Len(out.vials[k].segments) = Len(in.vials[k].segments)

NoPartialVials(state) ==
    \A k \in 1..Len(state.vials) : isEmpty(state.vials[k]) \/ isFull(state.vials[k])

(* C28: for every input state and every rng the result of randomizeVials   *)
(* has as many vials as the input and the same total of every color, every *)
(* vial empty in the input is empty, and every other vial holds as many    *)
(* segments as before.                                                     *)
C28_RandomizeKeepsSlots ==
    Called("randomizeVials") => ConservesAndKeepsSlots(ucall.input, Returned_state)

(* C28 as amended: the same for every input state whose vials are each     *)
(* empty or full.                                                          *)
C28_RandomizeKeepsSlotsOfFullVials ==
    (Called("randomizeVials") /\ NoPartialVials(ucall.input)) =>
        ConservesAndKeepsSlots(ucall.input, Returned_state)

C28_Witness ==
    /\ Called("randomizeVials")
    /\ NoPartialVials(ucall.input)
    /\ CountEmpty(ucall.input.vials) = 1
    /\ Returned_state.vials # ucall.input.vials

AddsEmptyVials(in, out, n) ==
    LET e == CountEmpty(in.vials)
        added == IF n > e THEN n - e ELSE 0
    IN /\ Len(out.vials) = Len(in.vials) + added
       /\ SubSeq(out.vials, 1, Len(in.vials)) = in.vials
       /\ \A k \in (Len(in.vials) + 1)..Len(out.vials) :
              out.vials[k] = NewVial(in.vials[1].capacity)
       /\ n >= e => CountEmpty(out.vials) = n
       /\ n <= e => Len(out.vials) = Len(in.vials)
       /\ out.totalVials = Len(out.vials)

(* C29: the result of addEmptyVials(state, n) holds the vials of the input *)
(* in order followed by max(0, n - e) empty vials of the capacity of vial  *)
(* 0, e being the number of empty vials of the input; so it has n empty    *)
(* vials when n >= e and no new vial when n <= e, and its totalVials is    *)
(* the length of its vials.                                                *)
C29_AddEmptyVials ==
    Called("addEmptyVials") =>
        AddsEmptyVials(ucall.input, Returned_state, ucall.emptyVialCount)

(* C29 as amended: the same for every input state with at least one vial.  *)
C29_AddEmptyVialsToVials ==
    (Called("addEmptyVials") /\ Len(ucall.input.vials) > 0) =>
        AddsEmptyVials(ucall.input, Returned_state, ucall.emptyVialCount)

C29_Witness ==
    /\ Called("addEmptyVials")
    /\ CountEmpty(ucall.input.vials) = 1
    /\ Len(ucall.input.vials) = 2
    /\ ucall.emptyVialCount = UtilMaxCount
    /\ Len(Returned_state.vials) = UtilMaxCount + 1

(* the source is empty or the target is full of one color *)
CompletesVial(state, move) ==
    LET sourceVial == state.vials[move.sourceVialIndex + 1]
        targetVial == state.vials[move.targetVialIndex + 1]
    IN isEmpty(sourceVial) \/ (isFull(targetVial) /\ Cardinality(ColorsIn(targetVial)) = 1)

(* C30: for every state s and every move m of s.getAvailableMoves(),       *)
(* wouldCompleteVial(s, m) is true exactly when in s.applyMove(m) the      *)
(* source vial is empty or the target vial is full of a single color.      *)
C30_WouldCompleteVialAgrees ==
    Called("wouldCompleteVial") =>
        (uret.value <=> CompletesVial(applyMoveTo(ucall.input, ucall.move), ucall.move))

C30_Witness ==
    /\ Called("wouldCompleteVial")
    /\ ~uret.value
    /\ isFull(applyMoveTo(ucall.input, ucall.move).vials[ucall.move.targetVialIndex + 1])

-----------------------------------------------------------------------------
(* random-level-generator: generateRandomLevelCandidate, generateBestLevel *)
(* and generateRandomLevel.  A seed string is the sequence of its char     *)
(* codes; solvePuzzle runs as the actions of the solver above, and its     *)
(* wall clock may pass timeoutMs at the top of any iteration.              *)

RandMaxSegments == 9
RandMaxEmptyVials == 2
RandMaxAttempts == 2

(* the default of the parameter maxSteps of generateRandomLevelCandidate *)
DefaultMaxSteps == 50000

(* "a", "7", "a7", "aa", "test" *)
RandSeeds ==
    {<<97>>, <<55>>, <<97, 55>>, <<97, 97>>,
     <<116, 101, 115, 116>>}

(* String(i) for a natural number i *)
RECURSIVE toString(_)
toString(i) == IF i < 10 THEN <<48 + i>> ELSE toString(i \div 10) \o <<48 + (i % 10)>>

(* a seed that also counts the calls made so far *)
subSeedByCall(baseSeed, i) == baseSeed \o <<45>> \o toString(i + rcalls)

(* `${baseSeed}-${i}` *)
subSeed(baseSeed, i) == baseSeed \o <<45>> \o toString(i)

hasPartialVials(state) ==
    \E k \in 1..Len(state.vials) : ~isEmpty(state.vials[k]) /\ ~isFull(state.vials[k])

hasSolvedVials(state) ==
    \E k \in 1..Len(state.vials) : ~isEmpty(state.vials[k]) /\ Vial_isComplete(state.vials[k])

NoMetrics ==
    [difficultyX5 |-> 0, entropyX2 |-> 0, fragmentation |-> 0, solutionSteps |-> 0,
     isValid |-> FALSE]

(* difficulty is entropy * 0.4 + fragmentation * 0.4 + length * 0.2; five  *)
(* times it is the integer 2 * entropy + 2 * fragmentation + length        *)
evaluateLevel(state, solutionPath) ==
    [difficultyX5 |-> calculateEntropyX2(state) + 2 * calculateFragmentation(state)
                      + Len(solutionPath),
     entropyX2 |-> calculateEntropyX2(state),
     fragmentation |-> calculateFragmentation(state),
     solutionSteps |-> Len(solutionPath),
     isValid |-> ~hasPartialVials(state) /\ ~hasSolvedVials(state)]

(* entropy > state.colorCount * 0.8 *)
hasDesirableProperties(state) ==
    /\ ~hasSolvedVials(state)
    /\ ~hasPartialVials(state)
    /\ 5 * calculateEntropyX2(state) > 8 * state.colorCount

(* the test that stores every candidate that has a solution *)
acceptsAnySolved(r) == r.hasSolutionMoves /\ r.hasMetrics

(* result.solutionMoves && result.metrics, then                            *)
(* result.metrics.isValid && hasDesirableProperties(result.state)          *)
accepts(r) ==
    /\ r.hasSolutionMoves /\ r.hasMetrics
    /\ r.metrics.isValid /\ hasDesirableProperties(r.state)

(* candidates[0] without the sort *)
bestCandidateUnsorted(cs) == cs[1]

(* candidates.sort((a, b) => b.metrics.difficulty - a.metrics.difficulty)  *)
(* and candidates[0]                                                       *)
bestCandidate(cs) ==
    LET scored == [k \in 1..Len(cs) |-> [c |-> cs[k], score |-> cs[k].metrics.difficultyX5]]
    IN sortScored(scored, 1, <<>>)[1].c

(* the shuffledState, solutionMoves and metadata.vialCapacity of the JSON *)
serializeRandomLevel(state, solutionMoves) ==
    [shuffledState |-> [k \in 1..Len(state.vials) |-> state.vials[k].segments],
     solutionMoves |-> [k \in 1..Len(solutionMoves) |->
                           [source |-> solutionMoves[k].sourceVialIndex,
                            target |-> solutionMoves[k].targetVialIndex,
                            amount |-> solutionMoves[k].colorsToPour]],
     vialCapacity |-> state.vials[1].capacity]

(* createInitialState(colorCount, vialHeight, 0) and randomizeVials on it, *)
(* with rng = new SeededRandom(seed): the heap and the randomized object   *)
randomizedStateOf(seed, colorCount, vialHeight) ==
    LET initialState == createInitialState(colorCount, vialHeight, 0).state
        v == newVials(<<>>, initialState.vials, 1, <<>>)
        s == New(v.heap, [initialState EXCEPT !.vials = v.refs])
        r == randomizeVials(s.heap, s.ref, <<SeededRandom(StringSeed(seed))>>, 1)
    IN [heap |-> r.heap, ref |-> r.ref]

RandCalls(maxSegments, maxEmptyVials, maxAttempts) ==
    {[baseSeed |-> a[1], colorCount |-> a[2], vialHeight |-> a[3],
      maxEmptyVials |-> a[4], attempts |-> a[5]] :
        a \in {b \in RandSeeds \X (2..maxSegments) \X (2..maxSegments)
                       \X (0..maxEmptyVials) \X (0..maxAttempts) :
                  b[2] * b[3] <= maxSegments}}

NoLevel == [returned |-> FALSE, threw |-> FALSE, isNull |-> FALSE,
            best |-> <<>>, level |-> <<>>]

SolverReset ==
    /\ spc' = "idle"
    /\ solverInitialState' = <<>>
    /\ maxSteps' = 0
    /\ queue' = <<>>
    /\ seen' = {}
    /\ statesExplored' = 0
    /\ exit' = "none"

RandInit ==
    /\ PlayIdle
    /\ GenIdle
    /\ HashIdle
    /\ SolverIdle
    /\ RngIdle
    /\ UtilIdle
    /\ BatchIdle
    /\ rpc = "for"
    /\ rargs \in RandCalls(RandMaxSegments, RandMaxEmptyVials, RandMaxAttempts)
    /\ attempt = 0
    /\ randomizedState = <<>>
    /\ currentEmptyVials = 0
    /\ stateWithEmptyVials = <<>>
    /\ candidates = <<>>
    /\ tried = <<>>
    /\ rout = NoLevel
    /\ rcalls = 0
    /\ rfirst = NoLevel
    /\ solverRuns = <<>>

(* one iteration of the for loop enters generateRandomLevelCandidate: the  *)
(* statements before its while loop                                        *)
GenerateRandomLevelCandidate ==
    /\ rpc = "for"
    /\ attempt < rargs.attempts
    /\ randomizedState' = randomizedStateOf(subSeed(rargs.baseSeed, attempt),
                                            rargs.colorCount, rargs.vialHeight)
    /\ currentEmptyVials' = 1
    /\ stateWithEmptyVials' = <<>>
    /\ solverRuns' = <<>>
    /\ rpc' = "while"
    /\ UNCHANGED <<rargs, attempt, candidates, tried, rout, rcalls, rfirst,
                   solverVars, playVars, genVars, hashVars, rngVars, utilVars, batchVars>>

(* solutionResult?.solved: solutionResult is null before the first call *)
Solved == result # <<>> /\ result.solved

WhileGuard == currentEmptyVials <= rargs.maxEmptyVials /\ ~Solved

(* the body of the while loop up to the call of solvePuzzle *)
AddEmptyVialsAndSolve ==
    /\ rpc = "while"
    /\ WhileGuard
    /\ stateWithEmptyVials' = addEmptyVials(randomizedState.heap, randomizedState.ref,
                                            currentEmptyVials)
    /\ solverInitialState' = StateAt(stateWithEmptyVials'.heap, stateWithEmptyVials'.ref)
    /\ maxSteps' = DefaultMaxSteps
    /\ spc' = "start"
    /\ rpc' = "solving"
    /\ UNCHANGED <<queue, seen, statesExplored, result, exit,
                   rargs, attempt, randomizedState, currentEmptyVials, candidates, tried,
                   rout, rcalls, rfirst, solverRuns, playVars, genVars, hashVars, rngVars,
                   utilVars, batchVars>>

(* solvePuzzle has returned: break when solved, currentEmptyVials++ otherwise *)
SolverReturned ==
    /\ rpc = "solving"
    /\ spc = "done"
    /\ currentEmptyVials' = IF ~result.timedOut /\ result.solved
                            THEN currentEmptyVials ELSE currentEmptyVials + 1
    /\ solverRuns' = Append(solverRuns,
                             [emptyVials |-> CountEmpty(solverInitialState.vials),
                              solved |-> result.solved])
    /\ SolverReset
    /\ rpc' = "while"
    /\ UNCHANGED <<result, rargs, attempt, randomizedState, stateWithEmptyVials, candidates,
                   tried, rout, rcalls, rfirst, playVars, genVars, hashVars, rngVars,
                   utilVars, batchVars>>

(* the value generateRandomLevelCandidate returns *)
CandidateResult ==
    LET state == StateAt(stateWithEmptyVials.heap, stateWithEmptyVials.ref)
    IN [state |-> state,
        hasSolutionMoves |-> Solved,
        solutionMoves |-> IF Solved THEN result.path ELSE <<>>,
        emptyVials |-> currentEmptyVials,
        hasMetrics |-> Solved /\ ~result.pathIsNull,
        metrics |-> IF Solved /\ ~result.pathIsNull
                    THEN evaluateLevel(state, result.path) ELSE NoMetrics]

(* generateBestLevel returns, or throws, and generateRandomLevel with it *)
RandReturn(out) ==
    /\ rout' = out
    /\ rcalls' = rcalls + 1
    /\ rfirst' = IF rcalls = 0 THEN out ELSE rfirst
    /\ rpc' = "done"

(* after the while loop: assertDefined(stateWithEmptyVials, ...) throws a  *)
(* TypeError when the loop made no iteration; otherwise the candidate is   *)
(* returned to generateBestLevel, which stores it when it is accepted      *)
CandidateReturns ==
    /\ rpc = "while"
    /\ ~WhileGuard
    /\ IF stateWithEmptyVials = <<>>
       THEN /\ RandReturn([NoLevel EXCEPT !.threw = TRUE])
            /\ UNCHANGED <<attempt, candidates, tried>>
       ELSE /\ tried' = Append(tried, CandidateResult)
            /\ candidates' = IF accepts(CandidateResult)
                             THEN Append(candidates, CandidateResult) ELSE candidates
            /\ attempt' = attempt + 1
            /\ rpc' = "for"
            /\ UNCHANGED <<rout, rcalls, rfirst>>
    /\ randomizedState' = <<>>
    /\ currentEmptyVials' = 0
    /\ stateWithEmptyVials' = <<>>
    /\ result' = <<>>
    /\ UNCHANGED solverRuns
    /\ UNCHANGED <<spc, solverInitialState, maxSteps, queue, seen, statesExplored, exit,
                   rargs, playVars, genVars, hashVars, rngVars, utilVars, batchVars>>

(* after the for loop: null when no candidate was stored, the first of the *)
(* sorted candidates otherwise, serialized by generateRandomLevel          *)
ReturnBestLevel ==
    /\ rpc = "for"
    /\ attempt >= rargs.attempts
    /\ IF Len(candidates) = 0
       THEN RandReturn([NoLevel EXCEPT !.returned = TRUE, !.isNull = TRUE])
       ELSE LET best == bestCandidate(candidates)
            IN RandReturn([NoLevel EXCEPT
                              !.returned = TRUE,
                              !.best = best,
                              !.level = serializeRandomLevel(best.state, best.solutionMoves)])
    /\ UNCHANGED <<rargs, attempt, randomizedState, currentEmptyVials, stateWithEmptyVials,
                   candidates, tried, solverRuns, solverVars, playVars, genVars, hashVars,
                   rngVars, utilVars, batchVars>>

(* the second call of the reproducibility test: same seed, same parameters *)
RandCallAgain ==
    /\ rpc = "done"
    /\ rcalls = 1
    /\ rpc' = "for"
    /\ attempt' = 0
    /\ candidates' = <<>>
    /\ tried' = <<>>
    /\ rout' = NoLevel
    /\ UNCHANGED <<rargs, randomizedState, currentEmptyVials, stateWithEmptyVials,
                   rcalls, rfirst, solverRuns, solverVars, playVars, genVars, hashVars, rngVars,
                   utilVars, batchVars>>

NextRand ==
    \/ GenerateRandomLevelCandidate
    \/ AddEmptyVialsAndSolve
    \/ SolvePuzzle
    \/ SolverTimeout
    \/ SolverFound
    \/ SolverExpand
    \/ SolverExit
    \/ SolverReturned
    \/ CandidateReturns
    \/ ReturnBestLevel

SpecRand == RandInit /\ [][NextRand]_vars

(* two calls in a row, the wall clock never passing timeoutMs *)
NextRandTwice ==
    \/ GenerateRandomLevelCandidate
    \/ AddEmptyVialsAndSolve
    \/ SolvePuzzle
    \/ SolverFound
    \/ SolverExpand
    \/ SolverExit
    \/ SolverReturned
    \/ CandidateReturns
    \/ ReturnBestLevel
    \/ RandCallAgain

SpecRandTwice == RandInit /\ [][NextRandTwice]_vars

-----------------------------------------------------------------------------
(* Properties of the random generator *)

Finished == rpc = "done"

WroteLevel == Finished /\ rout.returned /\ ~rout.isNull

(* C23: two runs of generateRandomLevel with the same seed and the same    *)
(* parameters, no wall-clock timeout firing, produce identical             *)
(* shuffledState and identical solutionMoves.                              *)
C23_Reproducible ==
    (Finished /\ rcalls = 2) =>
        /\ rout.threw = rfirst.threw
        /\ rout.isNull = rfirst.isNull
        /\ (rout.returned /\ ~rout.isNull) =>
               /\ rout.level.shuffledState = rfirst.level.shuffledState
               /\ rout.level.solutionMoves = rfirst.level.solutionMoves

C23_Witness ==
    /\ WroteLevel
    /\ rcalls = 2
    /\ rargs.attempts = RandMaxAttempts
    /\ Len(tried) = RandMaxAttempts
    /\ tried[1].state.vials # tried[2].state.vials
    /\ Len(rout.level.solutionMoves) > 2

(* the for loop of applySolution: ok is false where it returns false *)
RECURSIVE applySolutionLoop(_, _, _)
applySolutionLoop(vials, moves, k) ==
    IF k > Len(moves) THEN [ok |-> TRUE, vials |-> vials]
    ELSE LET move == moves[k]
             sourceVial == vials[move.source + 1]
             targetVial == vials[move.target + 1]
             n == Len(sourceVial.segments)
         IN IF \/ isEmpty(sourceVial)
               \/ isFull(targetVial)
               \/ ~isEmpty(targetVial) /\ getTopColor(targetVial) # getTopColor(sourceVial)
               \/ move.amount > n
            THEN [ok |-> FALSE, vials |-> vials]
            ELSE applySolutionLoop(
                     [vials EXCEPT
                         ![move.source + 1].segments = SubSeq(@, 1, n - move.amount),
                         ![move.target + 1].segments =
                             @ \o [j \in 1..move.amount |-> sourceVial.segments[n + 1 - j]]],
                     moves, k + 1)

applySolution(levelData) ==
    LET vials == [k \in 1..Len(levelData.shuffledState) |->
                     [segments |-> levelData.shuffledState[k],
                      capacity |-> levelData.vialCapacity]]
        r == applySolutionLoop(vials, levelData.solutionMoves, 1)
    IN r.ok /\ \A k \in 1..Len(r.vials) : Vial_isComplete(r.vials[k])

(* isValid and hasDesirableProperties of the level as it was written *)
PassedGate(c) ==
    /\ evaluateLevel(c.state, c.solutionMoves).isValid
    /\ hasDesirableProperties(c.state)

(* C24: every level returned by generateBestLevel passed the acceptance    *)
(* gate isValid and hasDesirableProperties, and carries solutionMoves such *)
(* that each move is legal at its step and applying them in order to the   *)
(* shuffled state reaches a state where every vial is complete.            *)
C24_SolvableByVerification ==
    WroteLevel =>
        /\ PassedGate(rout.best)
        /\ rout.level.shuffledState =
               [k \in 1..Len(rout.best.state.vials) |-> rout.best.state.vials[k].segments]
        /\ applySolution(rout.level)

C24_Witness ==
    /\ WroteLevel
    /\ rout.best.emptyVials = 2
    /\ Len(rout.level.solutionMoves) > 3
    /\ \E k \in 1..Len(tried) : tried[k].hasSolutionMoves /\ ~PassedGate(tried[k])

Accepted(c) == c.hasSolutionMoves /\ PassedGate(c)

(* null exactly when no candidate was accepted, else an accepted candidate *)
(* of the greatest difficulty                                              *)
SelectsBestAccepted ==
    /\ Len(tried) = rargs.attempts
    /\ rout.isNull <=> (\A k \in 1..Len(tried) : ~Accepted(tried[k]))
    /\ ~rout.isNull =>
           /\ \E k \in 1..Len(tried) : tried[k] = rout.best
           /\ Accepted(rout.best)
           /\ \A k \in 1..Len(tried) :
                  Accepted(tried[k]) =>
                      rout.best.metrics.difficultyX5 >= tried[k].metrics.difficultyX5

(* C25: generateBestLevel returns null if and only if none of the attempts *)
(* candidates was solved and accepted; otherwise it returns an accepted    *)
(* candidate whose difficulty is greater than or equal to the difficulty   *)
(* of every other accepted candidate.                                      *)
C25_CandidateSelection == Finished => (rout.returned /\ SelectsBestAccepted)

(* the selection in the calls that return *)
SelectionWhenReturned == (Finished /\ rout.returned) => SelectsBestAccepted

(* a later candidate of greater difficulty is the one returned *)
LaterCandidateSelected ==
    /\ WroteLevel
    /\ Len(candidates) = 2
    /\ rout.best = candidates[2]
    /\ candidates[1].metrics.difficultyX5 < candidates[2].metrics.difficultyX5

-----------------------------------------------------------------------------
(* Properties of prioritizeMoves and calculateFragmentation *)

(* the score as the heuristics are described: 100 for a completing move,   *)
(* 50 for a pour onto the same top color, 20 * (k - 1) for a top color     *)
(* that k > 1 vials hold                                                   *)
DescribedScore(move, state) ==
    LET hasSource == HasVial(state, move.sourceVialIndex)
        hasTarget == HasVial(state, move.targetVialIndex)
        top == IF hasSource THEN getTopColor(state.vials[move.sourceVialIndex + 1])
               ELSE NoColor
        k == Cardinality({v \in 1..Len(state.vials) :
                             \E j \in 1..Len(state.vials[v].segments) :
                                 state.vials[v].segments[j] = top})
    IN (IF wouldCompleteVial(state, move) THEN 100 ELSE 0)
       + (IF /\ hasTarget
             /\ ~isEmpty(state.vials[move.targetVialIndex + 1])
             /\ top # NoColor
             /\ getTopColor(state.vials[move.targetVialIndex + 1]) = top
          THEN 50 ELSE 0)
       + (IF top # NoColor /\ k > 1 THEN 20 * (k - 1) ELSE 0)

(* -999 for a move that names a vial the state does not have *)
ScoreWithInvalidLast(move, state) ==
    IF HasVial(state, move.sourceVialIndex) /\ HasVial(state, move.targetVialIndex)
    THEN DescribedScore(move, state)
    ELSE 0 - 999

(* out is in the order of non-increasing score(m) and the moves of each    *)
(* score are in the order they have in in                                  *)
StableDescending(in, out, score(_)) ==
    /\ SameElements(in, out)
    /\ \A i \in 1..Len(out) : \A j \in 1..Len(out) :
           i < j => score(out[i]) >= score(out[j])
    /\ \A i \in 1..Len(out) :
           SelectSeq(out, LAMBDA m : score(m) = score(out[i]))
               = SelectSeq(in, LAMBDA m : score(m) = score(out[i]))

(* C31 as stated: prioritizeMoves returns a permutation of its input moves *)
(* ordered by non-increasing score, the score being 100 if                 *)
(* wouldCompleteVial, +50 if the target is non-empty with the source's top *)
(* color, +20*(k-1) if that color occurs in k > 1 vials; moves with equal  *)
(* score keep their relative input order.                                  *)
C31_PrioritizeMoves ==
    Called("prioritizeMoves") =>
        StableDescending(ucall.moves, uret.value,
                         LAMBDA m : DescribedScore(m, ucall.input))

(* C31, amended: the same, with the score -999 for every move whose source *)
(* or target index names no vial of the state.                             *)
C31_PrioritizeMovesInvalidLast ==
    Called("prioritizeMoves") =>
        StableDescending(ucall.moves, uret.value,
                         LAMBDA m : ScoreWithInvalidLast(m, ucall.input))

C31_Witness ==
    /\ Called("prioritizeMoves")
    /\ uret.value # ucall.moves
    /\ \E i \in 1..Len(uret.value) : \E j \in 1..Len(uret.value) :
           /\ i < j
           /\ uret.value[i] # uret.value[j]
           /\ DescribedScore(uret.value[i], ucall.input) = 70
           /\ DescribedScore(uret.value[j], ucall.input) = 70
    /\ ~HasVial(ucall.input, uret.value[Len(uret.value)].sourceVialIndex)

(* the pairs of a color and a vial that holds it *)
ColorVialPairs(state) ==
    {p \in ColorsOf(state) \X (1..Len(state.vials)) :
        \E j \in 1..Len(state.vials[p[2]].segments) : state.vials[p[2]].segments[j] = p[1]}

(* C32: calculateFragmentation(state) equals the sum over colors present   *)
(* of (number of distinct vials containing that color - 1); it is never    *)
(* negative and it is 0 if and only if every color present occupies        *)
(* exactly one vial.                                                       *)
C32_Fragmentation ==
    Called("calculateFragmentation") =>
        /\ uret.value = Cardinality(ColorVialPairs(ucall.input))
                        - Cardinality(ColorsOf(ucall.input))
        /\ uret.value >= 0
        /\ uret.value = 0 <=>
               \A c \in ColorsOf(ucall.input) :
                   Cardinality({p \in ColorVialPairs(ucall.input) : p[1] = c}) = 1

C32_Witness ==
    /\ Called("calculateFragmentation")
    /\ uret.value = 2
    /\ \E k \in 1..Len(ucall.input.vials) :
           /\ Len(ucall.input.vials[k].segments) >= 2
           /\ Cardinality(ColorsIn(ucall.input.vials[k])) = 2

-----------------------------------------------------------------------------
(* The step budget of solvePuzzle *)

(* C33: solvePuzzle never dequeues more than maxSteps states; when         *)
(* maxSteps states have been explored without dequeuing a complete state   *)
(* it returns {solved: false, path: null, timedOut: true}, even if a       *)
(* complete state is still waiting in the queue.                           *)
C33_StepBudget ==
    /\ spc \in {"loop", "done"} => statesExplored <= maxSteps
    /\ (spc = "done" /\ statesExplored = maxSteps /\ exit # "complete") =>
           /\ exit \in {"maxSteps", "queueEmpty"}
           /\ ~result.solved
           /\ result.pathIsNull
           /\ result.timedOut

C33_Witness ==
    /\ spc = "done"
    /\ maxSteps > 1
    /\ statesExplored = maxSteps
    /\ result.timedOut
    /\ \E k \in 1..Len(queue) : isComplete(queue[k].state)

-----------------------------------------------------------------------------
(* solvePuzzle run to its end: no budget of steps or of time is reached.   *)
(* The loop is sequential code and in every state before the return one of *)
(* its steps can be taken, so a run that does not end takes steps for      *)
(* ever: []<><<TRUE>>_vars.                                                *)

SolverInitToEnd ==
    /\ PlayIdle
    /\ GenIdle
    /\ HashIdle
    /\ RngIdle
    /\ UtilIdle
    /\ RandIdle
    /\ BatchIdle
    /\ spc = "start"
    /\ solverInitialState \in SolverStates(SolverMaxVials, SolverMaxCapacity)
    /\ maxSteps = DefaultMaxSteps
    /\ queue = <<>>
    /\ seen = {}
    /\ statesExplored = 0
    /\ result = NoResult
    /\ exit = "none"

NextSolveToEnd == SolvePuzzle \/ SolverFound \/ SolverExpand \/ SolverExit

SpecSolveToEnd == SolverInitToEnd /\ [][NextSolveToEnd]_vars

(* the states that sequences of listed moves reach from the frontier *)
RECURSIVE ReachableStates(_, _)
ReachableStates(frontier, reached) ==
    IF frontier = {} THEN reached
    ELSE LET next_ == (UNION {Successors(s) : s \in frontier}) \ (reached \cup frontier)
         IN ReachableStates(next_, reached \cup frontier)

(* every entry put in the queue had a hash not seen before, and the        *)
(* dequeued states are no more than the reachable ones                     *)
SingleVisit ==
    spc \in {"loop", "done"} =>
        /\ statesExplored + Len(queue) = Cardinality(seen)
        /\ \A i \in 1..Len(queue) : \A j \in 1..Len(queue) :
               i # j => getStateHash(queue[i].state) # getStateHash(queue[j].state)
        /\ statesExplored <= Cardinality(ReachableStates({solverInitialState}, {}))

(* C39: on every finite initial state, even with unbounded maxSteps and    *)
(* timeoutMs, solvePuzzle terminates; no state hash is ever enqueued       *)
(* twice, so the number of dequeued states is at most the number of        *)
(* distinct states reachable from the initial state.                       *)
C39_TerminatesWithSingleVisit ==
    /\ []SingleVisit
    /\ []<><<TRUE>>_vars => <>(spc = "done" /\ exit # "maxSteps")

C39_Witness ==
    /\ spc = "done"
    /\ exit = "queueEmpty"
    /\ statesExplored > 5
    /\ statesExplored = Cardinality(ReachableStates({solverInitialState}, {}))

-----------------------------------------------------------------------------
(* The escalation of empty vials in generateRandomLevelCandidate *)

(* the calls of solvePuzzle made for the candidate c that was returned *)
Escalation(runs, c) ==
    /\ \A k \in 1..Len(runs) : runs[k].emptyVials = k
    /\ Len(runs) <= rargs.maxEmptyVials
    /\ \A k \in 1..(Len(runs) - 1) : ~runs[k].solved
    /\ IF Len(runs) > 0 /\ runs[Len(runs)].solved
       THEN /\ c.hasSolutionMoves
            /\ CountEmpty(c.state.vials) = Len(runs)
            /\ c.emptyVials = Len(runs)
       ELSE /\ Len(runs) = rargs.maxEmptyVials
            /\ ~c.hasSolutionMoves

CandidateReturned == rpc \in {"for", "done"} /\ Len(tried) > 0

(* the escalation in the calls that return *)
EscalationWhenReturned ==
    CandidateReturned => Escalation(solverRuns, tried[Len(tried)])

(* C34: generateRandomLevelCandidate invokes the solver on the randomized  *)
(* state with 1, 2, ..., maxEmptyVials empty vials in strictly increasing  *)
(* order, stops at the first count for which the solver returns solved,    *)
(* and then the returned state contains exactly that many empty vials; if  *)
(* no count up to maxEmptyVials is solved, solutionMoves is null.          *)
C34_EmptyVialEscalation ==
    /\ ~(rpc = "done" /\ rout.threw)
    /\ EscalationWhenReturned

(* a candidate solved with the second empty vial after the first count     *)
(* was exhausted                                                           *)
SecondCountSolved ==
    /\ CandidateReturned
    /\ Len(solverRuns) = 2
    /\ solverRuns[2].solved
    /\ Len(tried[Len(tried)].solutionMoves) > 0

====
